---- MODULE Spec2Model ----
(***************************************************************************)
(* Lease-Generation (clam): the lease allocators prl and shel_cshel, the   *)
(* LLT pruner and the histogram builder that feeds them.                   *)
(*                                                                         *)
(* Representation.                                                         *)
(*  - A packed u64 id is kept as its three bit fields:                     *)
(*      [set |-> bits 32.., phase |-> bits 24..31, addr |-> bits 0..23].   *)
(*    The masks and shifts of the source are operators on these fields.    *)
(*  - An f64 ratio (alpha, ppuc, bin saturation) is an exact fraction      *)
(*    <<n, d>> with d > 0, kept in lowest terms.  min_alpha is modelled    *)
(*    for discretize widths whose f64 value is exact.                      *)
(*  - A u64 subtraction that would go below zero, and an unwrap() of None, *)
(*    abort the run (pc = "panic"): the build checks arithmetic overflow.  *)
(*  - HashMap iteration order and the order of equal-priority heap entries *)
(*    are nondeterministic choices.                                        *)
(***************************************************************************)
EXTENDS Integers, Sequences, FiniteSets, TLC

\* ---------------------------------------------------------------- bounds
MaxSamples == 3

\* the values a sample's fields are drawn from
\* the (phase, address) pairs of the references a sample may come from
Refs == {<<0, 1>>, <<0, 2>>, <<1, 1>>}
SampledRIs == {1, 2, 4}
\* (cache_size, set_associativity) pairs given on the command line
CacheConfigs == {<<2, 0>>, <<2, 1>>}
SampleRates == {1}
DiscretizeWidths == {1}
LltSizes == {1, 2}
BinCounts == {1, 3}
\* the longest single-reference trace and the cache sizes of the single-reference runs
ScenarioSamples == 8
ScenarioCaches == {1, 2, 4}

\* ---------------------------------------------------------------- helpers
RECURSIVE SumSet(_, _)
SumSet(S, f) ==
    IF S = {} THEN 0
    ELSE LET x == CHOOSE y \in S : TRUE IN f[x] + SumSet(S \ {x}, f)

Min2(a, b) == IF a <= b THEN a ELSE b
Max2(a, b) == IF a >= b THEN a ELSE b

RECURSIVE Gcd(_, _)
Gcd(a, b) == IF b = 0 THEN a ELSE Gcd(b, a % b)

\* exact fractions standing for f64 values
Frac(n, d) ==
    IF n = 0 THEN <<0, 1>>
    ELSE LET a == IF n < 0 THEN -n ELSE n
             g == Gcd(a, d)
         IN <<n \div g, d \div g>>
One == <<1, 1>>
Zero == <<0, 1>>
FLt(a, b) == a[1] * b[2] < b[1] * a[2]
FLe(a, b) == a[1] * b[2] <= b[1] * a[2]
FAdd(a, b) == Frac(a[1] * b[2] + b[1] * a[2], a[2] * b[2])
FSub(a, b) == Frac(a[1] * b[2] - b[1] * a[2], a[2] * b[2])
FMul(a, b) == Frac(a[1] * b[1], a[2] * b[2])
FMulInt(k, a) == Frac(k * a[1], a[2])
\* a / k for an integer k # 0
FDivInt(a, k) == IF k > 0 THEN Frac(a[1], a[2] * k) ELSE Frac(-a[1], a[2] * (-k))
\* f64::round of a non-negative value: half away from zero
FRound(a) == (2 * a[1] + a[2]) \div (2 * a[2])
\* `as u64` of a non-negative f64: truncation
FTrunc(a) == a[1] \div a[2]

\* helpers::float_min
float_min(a, b) == IF FLt(b, a) THEN b ELSE a

\* ---------------------------------------------------------------- packed ids
MkId(set, phase, addr) == [set |-> set, phase |-> phase, addr |-> addr]
\* id & 0xFFFFFFFF
Low32(id) == [id EXCEPT !.set = 0]
\* id & 0x00FFFFFF
Low24(id) == [id EXCEPT !.set = 0, !.phase = 0]
\* (id & 0xFF000000) >> 24
PhaseOf(id) == id.phase
\* id >> 24, the set bits included
Shr24(id) == id.set * 256 + id.phase
\* bitwise or of two natural numbers
RECURSIVE BitOr(_, _)
BitOr(a, b) ==
    IF a = 0 THEN b
    ELSE IF b = 0 THEN a
    ELSE (IF a % 2 = 1 \/ b % 2 = 1 THEN 1 ELSE 0) + 2 * BitOr(a \div 2, b \div 2)
\* phase_id_ref | (set << 32); the field `set` of an id stands for its bits 32 and above
WithSet(id, set) == [id EXCEPT !.set = BitOr(@, set)]

\* ---------------------------------------------------------------- utils.rs
calculate_num_ways(set_associativity, cache_size) ==
    IF set_associativity = 0 THEN cache_size ELSE set_associativity

calculate_set_mask(cache_size, num_ways) == (cache_size \div num_ways) - 1

\* tag & set_mask for the masks 0 and 1 the configurations produce
TagSet(tag, set_mask) == IF set_mask = 0 THEN 0 ELSE tag % (set_mask + 1)

\* ---------------------------------------------------------------- maps
EmptyMap == [x \in {} |-> 0]
Put(f, k, v) == [x \in (DOMAIN f) \cup {k} |-> IF x = k THEN v ELSE f[x]]
Get(f, k, default) == IF k \in DOMAIN f THEN f[k] ELSE default

\* ---------------------------------------------------------------- io.rs
\* the canonical key of a negative (cold) reuse interval
ColdRI == 16777215

\* a sample of the trace: backward_ri is the value read as a signed 32-bit integer
SetPhaseRef(s, set_mask) == WithSet(s.phase_id_ref, TagSet(s.tag, set_mask))

\* use_time of a sample (build_phase_transitions and process_sample agree on it)
UseTime(s) ==
    IF s.backward_ri < 0 THEN s.time - (-s.backward_ri) ELSE s.time - s.backward_ri

CanonicalRI(s) == IF s.backward_ri < 0 THEN ColdRI ELSE s.backward_ri

\* sample_hash: use_time -> phase of the last sample inserted under that use_time
SampleHash(trace) ==
    LET times == {UseTime(trace[i]) : i \in DOMAIN trace}
        lastAt(u) == CHOOSE i \in DOMAIN trace :
                        /\ UseTime(trace[i]) = u
                        /\ \A j \in DOMAIN trace : UseTime(trace[j]) = u => j <= i
    IN [u \in times |-> PhaseOf(trace[lastAt(u)].phase_id_ref)]

RECURSIVE TransitionsFrom(_, _, _, _)
TransitionsFrom(sh, times, current_phase, acc) ==
    IF times = {} THEN acc
    ELSE LET t == CHOOSE x \in times : \A y \in times : x <= y
         IN IF sh[t] # current_phase
            THEN TransitionsFrom(sh, times \ {t}, sh[t], Append(acc, <<t, sh[t]>>))
            ELSE TransitionsFrom(sh, times \ {t}, current_phase, acc)

build_phase_transitions(trace) ==
    LET sh == SampleHash(trace)
    IN TransitionsFrom(sh, DOMAIN sh, 0, << <<0, 0>> >>)

\* helpers::binary_search: the first transition whose time is greater than t,
\* <<>> when there is none
binary_search(phase_transitions, t) ==
    LET later == {i \in DOMAIN phase_transitions : phase_transitions[i][1] > t}
    IN IF later = {} THEN << >>
       ELSE phase_transitions[CHOOSE i \in later : \A j \in later : i <= j]

NextPhaseTuple(phase_transitions, s) ==
    LET found == binary_search(phase_transitions, UseTime(s))
    IN IF found = << >> THEN <<s.time + 1, 0>> ELSE found

\* the reuse interval get_prl_hists keys on: backward_ri read as an unsigned number
PrlRI(s) == s.backward_ri

\* the sample loop of get_prl_hists
RECURSIVE BinPass(_, _, _, _, _)
BinPass(acc, samples, i, width, mask) ==
    IF i > Len(samples) THEN acc
    ELSE
    LET s == samples[i]
        a == IF s.time > acc.curr_bin + width
             THEN [acc EXCEPT
                     !.bin_freqs = Put(@, acc.curr_bin, acc.curr_bin_dict),
                     !.bin_ri_distributions =
                         Put(@, acc.curr_bin, acc.curr_ri_distribution_dict),
                     !.curr_bin_dict = EmptyMap,
                     !.curr_ri_distribution_dict = EmptyMap,
                     !.curr_bin = @ + width]
             ELSE acc
        addr == SetPhaseRef(s, mask)
        dist == Get(a.curr_ri_distribution_dict, addr, EmptyMap)
    IN BinPass([a EXCEPT
                  !.curr_bin_dict = Put(@, addr, Get(@, addr, 0) + 1),
                  !.curr_ri_distribution_dict =
                      Put(@, addr, Put(dist, PrlRI(s), Get(dist, PrlRI(s), 0) + 1)),
                  !.all_keys = @ \cup {addr}],
               samples, i + 1, width, mask)

get_prl_hists(samples, num_bins, mask) ==
    LET last_address == IF Len(samples) = 0 THEN 0 ELSE samples[Len(samples)].time
        width == (last_address + num_bins - 1) \div num_bins
        start == [bin_freqs |-> EmptyMap, bin_ri_distributions |-> EmptyMap, curr_bin |-> 0,
                  curr_bin_dict |-> EmptyMap, curr_ri_distribution_dict |-> EmptyMap,
                  all_keys |-> {}]
        done == BinPass(start, samples, 1, width, mask)
        freqs == Put(done.bin_freqs, done.curr_bin, done.curr_bin_dict)
    IN [bin_ri_distribution |->
            Put(done.bin_ri_distributions, done.curr_bin, done.curr_ri_distribution_dict),
        bin_freqs |->
            [bin \in DOMAIN freqs |->
                [key \in (DOMAIN freqs[bin]) \cup done.all_keys |-> Get(freqs[bin], key, 0)]],
        bin_width |-> width]

\* ---------------------------------------------------------------- lease_gen.rs: histograms
EmptyRI == [count |-> 0, cost |-> EmptyMap]
AddHead(cost, phase, amount) ==
    LET old == Get(cost, phase, <<0, 0>>) IN Put(cost, phase, <<old[1] + amount, old[2]>>)
AddTail(cost, phase, amount) ==
    LET old == Get(cost, phase, <<0, 0>>) IN Put(cost, phase, <<old[1], old[2] + amount>>)

\* mutation of HeadCostOf: the whole interval is credited to the sample's own phase
HeadCostOwnPhase(entry, phase_id, ri, use_time, next_phase_tuple) ==
    [count |-> entry.count + 1, cost |-> AddHead(entry.cost, phase_id, ri)]

HeadCostOf(entry, phase_id, ri, use_time, next_phase_tuple) ==
    LET this_phase_cost == Min2(next_phase_tuple[1] - use_time, ri)
        next_phase_cost == Max2(use_time + ri - next_phase_tuple[1], 0)
        own == AddHead(entry.cost, phase_id, this_phase_cost)
    IN [count |-> entry.count + 1,
        cost |-> IF next_phase_cost > 0
                 THEN AddHead(own, next_phase_tuple[2], next_phase_cost)
                 ELSE own]

\* mutation of TailCostOf: the tail pass counts the sample again
TailCostCounting(entry, phase_id, ri_other, use_time, next_phase_tuple) ==
    [count |-> entry.count + 1,
     cost |-> AddTail(entry.cost, phase_id, Min2(next_phase_tuple[1] - use_time, ri_other))]

TailCostOf(entry, phase_id, ri_other, use_time, next_phase_tuple) ==
    LET this_phase_tail_cost == Min2(next_phase_tuple[1] - use_time, ri_other)
        next_phase_tail_cost == Max2(0, use_time + ri_other - next_phase_tuple[1])
        own == AddTail(entry.cost, phase_id, this_phase_tail_cost)
    IN [count |-> entry.count,
        cost |-> IF next_phase_tail_cost > 0
                 THEN AddTail(own, next_phase_tuple[2], next_phase_tail_cost)
                 ELSE own]

process_sample_cost(hists, phase_id_ref, ri, use_time, next_phase_tuple, is_head_cost) ==
    LET phase_id == PhaseOf(phase_id_ref)
        ref_hist == Get(hists, phase_id_ref, EmptyMap)
    IN IF is_head_cost
       THEN Put(hists, phase_id_ref,
                Put(ref_hist, ri,
                    HeadCostOf(Get(ref_hist, ri, EmptyRI), phase_id, ri, use_time,
                               next_phase_tuple)))
       ELSE Put(hists, phase_id_ref,
                [ri_other \in DOMAIN ref_hist |->
                    IF ri_other >= ri THEN ref_hist[ri_other]
                    ELSE TailCostOf(ref_hist[ri_other], phase_id, ri_other, use_time,
                                    next_phase_tuple)])

\* the single-pass (SHEL) branch of process_sample
ShelSample(hists, set_phase_id_ref, ri, phase_id) ==
    LET ref_hist == Get(hists, set_phase_id_ref, EmptyMap)
        old == Get(ref_hist, ri, EmptyRI)
    IN Put(hists, set_phase_id_ref,
           Put(ref_hist, ri,
               [count |-> old.count + 1,
                cost |-> IF phase_id \in DOMAIN old.cost THEN old.cost
                         ELSE Put(old.cost, phase_id, <<0, 0>>)]))

\* one call of the closure process_sample; acc = [hists, samples_per_phase]
process_sample(acc, s, is_head, cshel, set_mask, phase_transitions) ==
    LET set_phase_id_ref == SetPhaseRef(s, set_mask)
        phase_id == PhaseOf(s.phase_id_ref)
        counted == Put(acc.samples_per_phase, phase_id,
                       Get(acc.samples_per_phase, phase_id, 0) + 1)
    IN IF cshel
       THEN [hists |-> process_sample_cost(acc.hists, set_phase_id_ref, CanonicalRI(s),
                                           UseTime(s),
                                           NextPhaseTuple(phase_transitions, s), is_head),
             samples_per_phase |-> IF is_head THEN counted ELSE acc.samples_per_phase]
       ELSE [hists |-> ShelSample(acc.hists, set_phase_id_ref, CanonicalRI(s), phase_id),
             samples_per_phase |-> counted]

RECURSIVE PassFrom(_, _, _, _, _, _, _)
PassFrom(acc, trace, i, is_head, cshel, set_mask, phase_transitions) ==
    IF i > Len(trace) THEN acc
    ELSE PassFrom(process_sample(acc, trace[i], is_head, cshel, set_mask, phase_transitions),
                  trace, i + 1, is_head, cshel, set_mask, phase_transitions)

build_ri_hists(trace, cshel, set_mask) ==
    LET pt == build_phase_transitions(trace)
        start == [hists |-> EmptyMap, samples_per_phase |-> EmptyMap]
    IN IF cshel
       THEN PassFrom(PassFrom(start, trace, 1, TRUE, TRUE, set_mask, pt),
                     trace, 1, FALSE, TRUE, set_mask, pt)
       ELSE PassFrom(start, trace, 1, FALSE, FALSE, set_mask, pt)

\* ---------------------------------------------------------------- lease_gen.rs: costs and PPUCs
RangeOf(seq) == {seq[i] : i \in DOMAIN seq}

\* (new_cost - old_cost) * sample_rate; a negative result is a u64 underflow
cshel_phase_ref_cost(sample_rate, phase, ref_id, old_lease, new_lease, hists) ==
    IF ref_id \notin DOMAIN hists THEN 0
    ELSE LET ri_hist == hists[ref_id]
             head(ri) == Get(ri_hist[ri].cost, phase, <<0, 0>>)[1]
             tail(ri) == Get(ri_hist[ri].cost, phase, <<0, 0>>)[2]
             costAt(lease) ==
                 SumSet(DOMAIN ri_hist,
                        [ri \in DOMAIN ri_hist |->
                            (IF ri <= lease THEN head(ri) ELSE 0)
                            + (IF ri = lease THEN tail(ri) ELSE 0)])
         IN (costAt(new_lease) - costAt(old_lease)) * sample_rate

shel_phase_ref_cost(sample_rate, phase, ref_id, old_lease, new_lease, hists) ==
    IF ref_id \notin DOMAIN hists THEN 0
    ELSE IF phase # PhaseOf(ref_id) THEN 0
    ELSE LET ri_hist == hists[ref_id]
             costAt(lease) ==
                 SumSet(DOMAIN ri_hist,
                        [ri \in DOMAIN ri_hist |->
                            IF ri <= lease THEN ri_hist[ri].count * ri
                            ELSE ri_hist[ri].count * lease])
         IN (costAt(new_lease) - costAt(old_lease)) * sample_rate

phase_ref_cost(cshel, sample_rate, phase, ref_id, old_lease, new_lease, hists) ==
    IF cshel THEN cshel_phase_ref_cost(sample_rate, phase, ref_id, old_lease, new_lease, hists)
    ELSE shel_phase_ref_cost(sample_rate, phase, ref_id, old_lease, new_lease, hists)

\* the tables get_ppuc fills while it walks the histogram in ascending RI order
LeaseHitTable(ref_ri_hist, lease) ==
    IF lease \in DOMAIN ref_ri_hist
    THEN SumSet({ri \in DOMAIN ref_ri_hist : ri <= lease},
                [ri \in DOMAIN ref_ri_hist |-> ref_ri_hist[ri].count])
    ELSE 0

LeaseCostTable(ref_ri_hist, lease) ==
    IF lease \in DOMAIN ref_ri_hist
    THEN LET total_count == SumSet(DOMAIN ref_ri_hist,
                                   [ri \in DOMAIN ref_ri_hist |-> ref_ri_hist[ri].count])
             hits == LeaseHitTable(ref_ri_hist, lease)
             head_cost == SumSet({ri \in DOMAIN ref_ri_hist : ri <= lease},
                                 [ri \in DOMAIN ref_ri_hist |-> ref_ri_hist[ri].count * ri])
         IN head_cost + (total_count - hits) * lease
    ELSE 0

get_ppuc(ref_id, base_lease, ref_ri_hist) ==
    {[ppuc |-> <<LeaseHitTable(ref_ri_hist, k) - LeaseHitTable(ref_ri_hist, base_lease),
                 LeaseCostTable(ref_ri_hist, k) - LeaseCostTable(ref_ri_hist, base_lease)>>,
      lease |-> k,
      old_lease |-> base_lease,
      ref_id |-> ref_id,
      new_hits |-> LeaseHitTable(ref_ri_hist, k) - LeaseHitTable(ref_ri_hist, base_lease)]
     : k \in {ri \in DOMAIN ref_ri_hist : ri > base_lease}}

\* PartialOrd for PPUC: the order BinaryHeap::pop follows
PpucLt(a, b) == FLt(a.ppuc, b.ppuc)
\* mutation of HeapTop: the comparison reversed, the heap hands out the lowest ppuc
HeapTopReversed(tree) == {c \in tree : \A d \in tree : ~PpucLt(d, c)}
HeapTop(tree) == {c \in tree : \A d \in tree : ~PpucLt(c, d)}

\* the PPUCs of every reference from one base lease
AllPpucs(hists, base_lease) ==
    UNION {get_ppuc(ref_id, base_lease, hists[ref_id]) : ref_id \in DOMAIN hists}

\* threshold for a meaningful dual lease: 1 - (2^D - 1.5) / (2^D - 1)
MinAlpha(discretize_width) == Frac(1, 2 * (2 ^ discretize_width - 1))

\* ---------------------------------------------------------------- state
VARIABLES
    pc,                 \* "loop": in the allocator's main loop; "done": LeaseResults returned;
                        \* "pruned" / "pruned2": after one / two prune_leases_to_fit_llt; "panic"
    alg,                \* "shel" (cshel = false), "cshel" (cshel = true) or "prl"
    trace,              \* the sample stream of the input file
    reader,             \* build_ri_hists: the pass (is_head) and the next sample to process
    cache_size,         \* cli.cache_size
    set_mask,           \* context.set_mask
    sample_rate,        \* context.sample_rate
    discretize_width,   \* cli.discretize_width
    ri_hists,           \* context.ri_hists
    samples_per_phase,  \* context.samples_per_phase
    leases,             \* phase_ref -> short lease
    dual_leases,        \* ref -> <<alpha, long lease>>
    cost_per_phase,     \* phase -> set -> cost
    ppuc_tree,          \* the BinaryHeap of PPUC candidates
    dual_lease_phases,  \* Vec of the phases that hold a dual lease
    past_lease_values,  \* ref -> <<lease assigned, lease before it>>
    last_lease_cost,    \* phase -> set -> <<cost applied, cost at alpha 1, ref>>
    binned_ris,         \* prl: bin -> address -> ri -> count
    binned_freqs,       \* prl: bin -> address -> count
    bin_width,          \* prl: width of a bin
    bin_saturation,     \* prl: bin -> set -> occupancy
    llt_size,           \* the llt_size prune_leases_to_fit_llt was called with (0: not yet)
    unpruned,           \* leases and dual_leases as the last pruner call found them (history)
    predicted,          \* dump_leases: num_hits and the predicted miss count it returns
    mem_size,           \* cli.mem_size
    image,              \* gen_lease_c_file: the phase blocks and words written (0: no file)
    event,              \* what the last step did (history)
    committed           \* the ppucs of the candidates committed so far (history)

vars == <<pc, alg, trace, reader, mem_size, cache_size, set_mask, sample_rate,
          discretize_width, ri_hists,
          samples_per_phase, leases, dual_leases, cost_per_phase, ppuc_tree,
          dual_lease_phases, past_lease_values, last_lease_cost, binned_ris, binned_freqs,
          bin_width, bin_saturation, llt_size, unpruned, predicted, image, event, committed>>

inputs == <<alg, trace, reader, mem_size, cache_size, set_mask, sample_rate,
            discretize_width, ri_hists,
            samples_per_phase, binned_ris, binned_freqs, bin_width>>

\* no lease file has been written
NoImage == [blocks |-> 0, words |-> 0]

num_sets == set_mask + 1
cshel == (alg = "cshel")
Sets == 0 .. (num_sets - 1)
min_alpha == MinAlpha(discretize_width)

NoCand == [ppuc |-> <<0, 1>>, lease |-> 0, old_lease |-> 0, ref_id |-> MkId(0, 0, 0),
           new_hits |-> 0]
Ev(kind, cand, alpha, adjusted) ==
    [kind |-> kind, cand |-> cand, alpha |-> alpha, adjusted |-> adjusted]

\* ---------------------------------------------------------------- inputs
\* the time of the i-th sample: consecutive ticks, late enough for every use_time to be >= 0
SampleTime(i) ==
    LET maxRI == CHOOSE r \in SampledRIs : \A q \in SampledRIs : q <= r IN maxRI + i - 1

RawSamples(mask) ==
    {[phase |-> r[1], addr |-> r[2], tag |-> t, ri |-> ri] :
        r \in Refs, t \in 0 .. mask, ri \in SampledRIs}

MkTrace(raw) ==
    [i \in DOMAIN raw |->
        [phase_id_ref |-> MkId(0, raw[i].phase, raw[i].addr),
         backward_ri |-> raw[i].ri,
         tag |-> raw[i].tag,
         time |-> SampleTime(i)]]

\* ---------------------------------------------------------------- shel_cshel: initialisation
BudgetPerPhase(spp, cache, nsets, rate) ==
    [phase \in DOMAIN spp |-> ((spp[phase] * cache) \div nsets) * rate]

budget_per_phase == BudgetPerPhase(samples_per_phase, cache_size, num_sets, sample_rate)

\* every key of ri_hists adds its lease-1 cost to every set of its phase
InitCostPerPhase(hists, is_cshel, nsets, rate) ==
    LET phases == {PhaseOf(ref_id) : ref_id \in DOMAIN hists}
        keysOf(phase) == {ref_id \in DOMAIN hists : PhaseOf(ref_id) = phase}
    IN [phase \in phases |->
           [set \in 0 .. (nsets - 1) |->
               SumSet(keysOf(phase),
                      [ref_id \in keysOf(phase) |->
                          phase_ref_cost(is_cshel, rate, phase,
                                         WithSet(Low32(ref_id), set), 0, 1, hists)])]]

InitLeases(hists) == [ref \in {Low32(ref_id) : ref_id \in DOMAIN hists} |-> 1]

\* ---------------------------------------------------------------- shel_cshel: one loop iteration
\* the allocator's mutable state as one record
Alloc == [leases |-> leases, dual_leases |-> dual_leases, cost_per_phase |-> cost_per_phase,
          ppuc_tree |-> ppuc_tree, dual_lease_phases |-> dual_lease_phases,
          past_lease_values |-> past_lease_values, last_lease_cost |-> last_lease_cost,
          bin_saturation |-> bin_saturation, panic |-> FALSE]

Outcome(a, next_pc, kind, cand, alpha, adjusted) ==
    [a |-> a, pc |-> next_pc, event |-> Ev(kind, cand, alpha, adjusted)]

SetFull(cost, phase) == \E set \in Sets : cost[phase][set] = budget_per_phase[phase]

\* new_phase_ref_cost[phase][set] of moving the candidate's reference to the candidate lease
NewPhaseRefCost(cand, old_lease) ==
    [phase \in DOMAIN cost_per_phase |->
        [set \in Sets |->
            phase_ref_cost(cshel, sample_rate, phase, WithSet(Low32(cand.ref_id), set),
                           old_lease, cand.lease, ri_hists)]]

\* the alpha that fits the cells of `phases` whose new cost is not zero
AlphaOver(phases, new_cost) ==
    LET cells == {c \in phases \X Sets : new_cost[c[1]][c[2]] > 0}
        ratio(c) == Frac(budget_per_phase[c[1]] - cost_per_phase[c[1]][c[2]],
                         new_cost[c[1]][c[2]])
    IN IF cells = {} THEN One
       ELSE LET least == CHOOSE c \in cells : \A d \in cells : ~FLt(ratio(d), ratio(c))
            IN float_min(One, ratio(least))

\* cost_per_phase after a dual lease is committed with the global alpha
DualCost(new_cost, alpha) ==
    [phase \in DOMAIN cost_per_phase |->
        [set \in Sets |->
            Min2(cost_per_phase[phase][set] + FRound(FMulInt(new_cost[phase][set], alpha)),
                 budget_per_phase[phase])]]

\* --- C-SHEL back-adjustment, first loop: the projected costs and the adjusted alphas
\* acc = [new_costs, new_alpha, adjust_lease, phase_alpha, panic, unwrap]; unwrap marks the
\* panic of dual_leases.get(&old_phase_ref).unwrap() on a reference without a dual lease
RECURSIVE AdjustSets(_, _, _, _, _)
AdjustSets(acc, phase, set, new_cost, current_phase_alpha) ==
    IF set >= num_sets THEN acc
    ELSE
    LET set_phase_ref_cost == new_cost[phase][set]
        has_last == phase \in DOMAIN last_lease_cost /\ set \in DOMAIN last_lease_cost[phase]
        past_cost_actual == IF has_last THEN last_lease_cost[phase][set][1] ELSE 0
        projected == cost_per_phase[phase][set] - past_cost_actual
                     + FRound(FMulInt(set_phase_ref_cost, current_phase_alpha))
        with_cost(c) == [acc EXCEPT !.new_costs =
                            Put(acc.new_costs, phase, Put(Get(acc.new_costs, phase, EmptyMap), set, c))]
        past_cost_max == IF past_cost_actual # 0 THEN last_lease_cost[phase][set][2] ELSE 0
        remaining_budget == budget_per_phase[phase] - projected
        set_phase_alpha == float_min(One, Frac(remaining_budget, past_cost_max))
    IN IF set_phase_ref_cost > 0
       THEN IF cost_per_phase[phase][set] - past_cost_actual < 0
            THEN [acc EXCEPT !.panic = TRUE]
            ELSE IF projected > budget_per_phase[phase]
            THEN [with_cost(projected) EXCEPT !.adjust_lease = FALSE]
            ELSE IF past_cost_max # 0
            THEN IF FLe(set_phase_alpha, min_alpha)
                 THEN IF last_lease_cost[phase][set][3] \notin DOMAIN dual_leases
                      THEN [acc EXCEPT !.panic = TRUE, !.unwrap = TRUE]
                      ELSE [with_cost(projected) EXCEPT !.adjust_lease = FALSE]
                 ELSE LET lower == IF FLt(set_phase_alpha, acc.phase_alpha)
                                   THEN set_phase_alpha ELSE acc.phase_alpha
                      IN AdjustSets([with_cost(projected) EXCEPT
                                        !.phase_alpha = lower,
                                        !.new_alpha = Put(acc.new_alpha, phase, lower)],
                                    phase, set + 1, new_cost, current_phase_alpha)
            ELSE AdjustSets(with_cost(projected), phase, set + 1, new_cost, current_phase_alpha)
       ELSE AdjustSets(with_cost(cost_per_phase[phase][set]), phase, set + 1, new_cost,
                       current_phase_alpha)

RECURSIVE AdjustPhases(_, _, _, _, _)
AdjustPhases(acc, phase_ids, i, new_cost, current_phase_alpha) ==
    IF i > Len(phase_ids) \/ acc.panic THEN acc
    ELSE AdjustPhases(AdjustSets(acc, phase_ids[i], 0, new_cost, current_phase_alpha),
                      phase_ids, i + 1, new_cost, current_phase_alpha)

\* --- C-SHEL back-adjustment, second loop: rewrite the adjusted phases
\* a = the allocator record being rewritten; `plan` is the result of the first loop
ApplyCell(a, plan, phase, set, cand) ==
    IF phase \in DOMAIN plan.new_alpha
    THEN LET old_phase_cost_max == a.last_lease_cost[phase][set][2]
             old_phase_ref == a.last_lease_cost[phase][set][3]
             new_phase_cost == FTrunc(FMulInt(old_phase_cost_max, plan.new_alpha[phase]))
             was_dual == phase \in RangeOf(a.dual_lease_phases)
             converts == ~was_dual /\ phase # Shr24(cand.ref_id)
             broken == \/ was_dual /\ old_phase_ref \notin DOMAIN a.dual_leases
                       \/ converts /\ old_phase_ref \notin DOMAIN a.past_lease_values
             duals == IF was_dual
                      THEN Put(a.dual_leases, old_phase_ref,
                               <<plan.new_alpha[phase], a.dual_leases[old_phase_ref][2]>>)
                      ELSE IF converts
                      THEN Put(a.dual_leases, old_phase_ref,
                               <<plan.new_alpha[phase], a.past_lease_values[old_phase_ref][1]>>)
                      ELSE a.dual_leases
         IN IF broken THEN [a EXCEPT !.panic = TRUE]
            ELSE [a EXCEPT
                    !.dual_leases = duals,
                    !.leases = IF converts
                               THEN Put(a.leases, old_phase_ref,
                                        a.past_lease_values[old_phase_ref][2])
                               ELSE a.leases,
                    !.dual_lease_phases = IF converts THEN Append(a.dual_lease_phases, phase)
                                          ELSE a.dual_lease_phases,
                    !.last_lease_cost[phase][set] =
                        <<new_phase_cost, old_phase_cost_max, old_phase_ref>>,
                    !.cost_per_phase[phase][set] = plan.new_costs[phase][set] + new_phase_cost]
    ELSE [a EXCEPT !.cost_per_phase[phase][set] =
                        Min2(plan.new_costs[phase][set], budget_per_phase[phase])]

RECURSIVE ApplyFrom(_, _, _, _, _, _)
ApplyFrom(a, plan, phase_ids, i, set, cand) ==
    IF i > Len(phase_ids) \/ a.panic THEN a
    ELSE IF set >= num_sets THEN ApplyFrom(a, plan, phase_ids, i + 1, 0, cand)
    ELSE ApplyFrom(ApplyCell(a, plan, phase_ids[i], set, cand), plan, phase_ids, i, set + 1, cand)

\* mutation of PushPpucs: the PPUCs are taken from the lease the reference had before
PushPpucsOfOldLease(tree, cand) ==
    tree \cup get_ppuc(cand.ref_id, cand.old_lease, ri_hists[cand.ref_id])

\* the single-lease commit shared by the acceptable branch and the alpha = 1.0 special case
PushPpucs(tree, cand) ==
    tree \cup get_ppuc(cand.ref_id, cand.lease, ri_hists[cand.ref_id])

\* mutation of CommitDual: the alpha = 1.0 special case is left out
CommitDualAlways(a, cand, new_cost, alpha, adjusted) ==
    Outcome([a EXCEPT
                !.last_lease_cost =
                    Put(a.last_lease_cost, PhaseOf(cand.ref_id),
                        [set \in Sets |->
                            <<FRound(FMulInt(new_cost[PhaseOf(cand.ref_id)][set], alpha)),
                              new_cost[PhaseOf(cand.ref_id)][set], Low32(cand.ref_id)>>]),
                !.dual_lease_phases = Append(a.dual_lease_phases, PhaseOf(cand.ref_id)),
                !.dual_leases = Put(a.dual_leases, Low32(cand.ref_id), <<alpha, cand.lease>>)],
            "loop", "dual", cand, alpha, adjusted)

\* records the dual lease of the candidate (or the plain lease when alpha is 1.0 and no set of
\* its phase is full); `a` already carries the updated costs
CommitDual(a, cand, new_cost, alpha, adjusted) ==
    LET phase == PhaseOf(cand.ref_id)
        ref_id == Low32(cand.ref_id)
        set_full == \E set \in Sets : a.cost_per_phase[phase][set] = budget_per_phase[phase]
    IN IF alpha = One /\ ~set_full
       THEN Outcome([a EXCEPT !.leases = Put(a.leases, ref_id, cand.lease),
                              !.ppuc_tree = PushPpucs(a.ppuc_tree, cand)],
                    "loop", "single_alpha1", cand, alpha, adjusted)
       ELSE Outcome([a EXCEPT
                        !.last_lease_cost =
                            Put(a.last_lease_cost, phase,
                                [set \in Sets |->
                                    <<FRound(FMulInt(new_cost[phase][set], alpha)),
                                      new_cost[phase][set], ref_id>>]),
                        !.dual_lease_phases = Append(a.dual_lease_phases, phase),
                        !.dual_leases = Put(a.dual_leases, ref_id, <<alpha, cand.lease>>)],
                    "loop", "dual", cand, alpha, adjusted)

\* the branch taken when the candidate does not fit as a single lease
Unacceptable(a, cand, new_cost, phase_ids) ==
    LET own == PhaseOf(cand.ref_id)
        alpha == AlphaOver(DOMAIN cost_per_phase, new_cost)
        current_phase_alpha == AlphaOver({own} \cap DOMAIN cost_per_phase, new_cost)
        over == \E phase \in DOMAIN cost_per_phase : \E set \in Sets :
                    /\ new_cost[phase][set] > 0
                    /\ budget_per_phase[phase] < cost_per_phase[phase][set]
        plan == AdjustPhases([new_costs |-> EmptyMap, new_alpha |-> EmptyMap,
                              adjust_lease |-> TRUE, phase_alpha |-> One, panic |-> FALSE,
                              unwrap |-> FALSE],
                             phase_ids, 1, new_cost, current_phase_alpha)
        applied == ApplyFrom(a, plan, phase_ids, 1, 0, cand)
    IN IF over THEN Outcome(a, "panic", "panic_over_budget", cand, Zero, FALSE)
       ELSE IF FLt(current_phase_alpha, min_alpha)
       THEN Outcome(a, "loop", "refuse_alpha", cand, current_phase_alpha, FALSE)
       ELSE IF FLt(min_alpha, alpha)
       THEN CommitDual([a EXCEPT !.cost_per_phase = DualCost(new_cost, alpha)],
                       cand, new_cost, alpha, FALSE)
       ELSE IF ~cshel
       THEN CommitDual(a, cand, new_cost, alpha, FALSE)
       ELSE IF plan.panic
       THEN Outcome(a, "panic",
                    IF plan.unwrap THEN "panic_adjust_unwrap" ELSE "panic_underflow",
                    cand, current_phase_alpha, FALSE)
       ELSE IF ~plan.adjust_lease
       THEN Outcome(a, "loop", "refuse_adjust", cand, current_phase_alpha, FALSE)
       ELSE IF applied.panic
       THEN Outcome(a, "panic", "panic_unwrap", cand, current_phase_alpha, FALSE)
       ELSE CommitDual(applied, cand, new_cost, current_phase_alpha, TRUE)

\* one iteration of the main loop for the popped candidate; phase_ids is the order in which
\* the keys of samples_per_phase are visited
shel_cshel_iteration(cand, phase_ids) ==
    LET a == [Alloc EXCEPT !.ppuc_tree = ppuc_tree \ {cand}]
        phase == PhaseOf(cand.ref_id)
        ref_id == Low32(cand.ref_id)
        old_lease == leases[ref_id]
        new_cost == NewPhaseRefCost(cand, old_lease)
        underflow == \E p \in DOMAIN new_cost : \E set \in Sets : new_cost[p][set] < 0
        acceptable_lease ==
            \A p \in DOMAIN cost_per_phase : \A set \in Sets :
                new_cost[p][set] + cost_per_phase[p][set] <= budget_per_phase[p]
    IN IF cand.old_lease # leases[ref_id]
       THEN Outcome(a, "loop", "stale", cand, Zero, FALSE)
       ELSE IF SetFull(cost_per_phase, phase)
       THEN Outcome(a, "loop", "set_full", cand, Zero, FALSE)
       ELSE IF Len(dual_lease_phases) = Cardinality(DOMAIN cost_per_phase)
       THEN Outcome(a, "done", "return_all_dual", cand, Zero, FALSE)
       ELSE IF phase \in RangeOf(dual_lease_phases)
       THEN Outcome(a, "loop", "phase_dual", cand, Zero, FALSE)
       ELSE IF underflow
       THEN Outcome(a, "panic", "panic_underflow", cand, Zero, FALSE)
       ELSE IF acceptable_lease
       THEN Outcome([a EXCEPT
                        !.cost_per_phase =
                            [p \in DOMAIN cost_per_phase |->
                                [set \in Sets |-> cost_per_phase[p][set] + new_cost[p][set]]],
                        !.past_lease_values =
                            Put(past_lease_values, ref_id, <<cand.lease, leases[ref_id]>>),
                        !.last_lease_cost =
                            Put(last_lease_cost, phase,
                                [set \in Sets |->
                                    <<new_cost[phase][set], new_cost[phase][set], ref_id>>]),
                        !.leases = Put(leases, ref_id, cand.lease),
                        !.ppuc_tree = PushPpucs(ppuc_tree \ {cand}, cand)],
                    "loop", "single", cand, One, FALSE)
       ELSE Unacceptable(a, cand, new_cost, phase_ids)

\* the orders in which a HashMap may hand out the keys in S
Orders(S) ==
    {seq \in [1 .. Cardinality(S) -> S] : \A i, j \in DOMAIN seq : i # j => seq[i] # seq[j]}

IsCommit(kind) == kind \in {"single", "single_alpha1", "dual"}

\* mutation of Install: the lease of the popped candidate is written whatever the outcome
InstallCandidateLease(out) ==
    /\ pc' = out.pc
    /\ event' = out.event
    /\ leases' = IF out.pc = "loop"
                 THEN Put(out.a.leases, Low32(out.event.cand.ref_id), out.event.cand.lease)
                 ELSE out.a.leases
    /\ dual_leases' = out.a.dual_leases
    /\ cost_per_phase' = out.a.cost_per_phase
    /\ ppuc_tree' = out.a.ppuc_tree
    /\ dual_lease_phases' = out.a.dual_lease_phases
    /\ past_lease_values' = out.a.past_lease_values
    /\ last_lease_cost' = out.a.last_lease_cost
    /\ bin_saturation' = out.a.bin_saturation
    /\ committed' = IF IsCommit(out.event.kind)
                    THEN Append(committed, out.event.cand.ppuc)
                    ELSE committed
    /\ UNCHANGED <<inputs, llt_size, unpruned, predicted, image>>

\* the state written back at the end of an iteration
Install(out) ==
    /\ pc' = out.pc
    /\ event' = out.event
    /\ leases' = out.a.leases
    /\ dual_leases' = out.a.dual_leases
    /\ cost_per_phase' = out.a.cost_per_phase
    /\ ppuc_tree' = out.a.ppuc_tree
    /\ dual_lease_phases' = out.a.dual_lease_phases
    /\ past_lease_values' = out.a.past_lease_values
    /\ last_lease_cost' = out.a.last_lease_cost
    /\ bin_saturation' = out.a.bin_saturation
    /\ committed' = IF IsCommit(out.event.kind)
                    THEN Append(committed, out.event.cand.ppuc)
                    ELSE committed
    /\ UNCHANGED <<inputs, llt_size, unpruned, predicted, image>>

\* shel_cshel: pop the best candidate and run one iteration
ShelCshelIterate ==
    /\ pc = "loop"
    /\ alg \in {"shel", "cshel"}
    /\ ppuc_tree # {}
    /\ \E cand \in HeapTop(ppuc_tree) :
         \E phase_ids \in Orders(DOMAIN samples_per_phase) :
         \E out \in {shel_cshel_iteration(cand, phase_ids)} : Install(out)

\* shel_cshel: the heap is empty, the LeaseResults are returned
ShelCshelReturn ==
    /\ pc = "loop"
    /\ alg \in {"shel", "cshel"}
    /\ ppuc_tree = {}
    /\ pc' = "done"
    /\ event' = Ev("return_heap_empty", NoCand, Zero, FALSE)
    /\ UNCHANGED <<inputs, leases, dual_leases, cost_per_phase, ppuc_tree, dual_lease_phases,
                   past_lease_values, last_lease_cost, bin_saturation, llt_size, unpruned,
                   predicted, image, committed>>

\* ---------------------------------------------------------------- prl
get_avg_lease(distribution, addr, bin, lease) ==
    LET d == distribution[bin][addr]
    IN SumSet(DOMAIN d,
              [ri \in DOMAIN d |-> IF ri <= lease /\ ri > 0 THEN ri * d[ri] ELSE lease * d[ri]])

BinTarget(width, cache, nsets) == (width * cache) \div nsets
bin_target == BinTarget(bin_width, cache_size, num_sets)

\* every address of bin 0 gets the lease 1, under its low 24 bits
PrlInitLeases(freqs) == [key \in {Low24(addr) : addr \in DOMAIN freqs[0]} |-> 1]

\* the lease-1 occupancy of an address is added to every set of the bins that hold it
PrlInitSaturation(ris, freqs, nsets, rate) ==
    [bin \in DOMAIN freqs |->
        [set \in 0 .. (nsets - 1) |->
            LET present == {addr \in DOMAIN freqs[0] : addr \in DOMAIN ris[bin]}
            IN Frac(SumSet(present,
                           [addr \in present |->
                               (get_avg_lease(ris, addr, bin, 1)
                                - get_avg_lease(ris, addr, bin, 0)) * rate]), 1)]]

Cells == {<<bin, set>> : bin \in DOMAIN bin_saturation, set \in Sets}
SetAddr(cand, set) == WithSet(Low32(cand.ref_id), set)
\* the cells whose bin holds the candidate's reference under the cell's set
Touched(cand) == {c \in Cells : SetAddr(cand, c[2]) \in DOMAIN binned_ris[c[1]]}

\* impact_dict[bin][set] for the candidate
Impact(cand, c) ==
    IF c \in Touched(cand)
    THEN (get_avg_lease(binned_ris, SetAddr(cand, c[2]), c[1], cand.lease)
          - get_avg_lease(binned_ris, SetAddr(cand, c[2]), c[1], leases[Low32(cand.ref_id)]))
         * sample_rate
    ELSE 0

\* neg_impact is what the last touched cell of the HashMap walk left in it
NegImpactChoices(cand) ==
    IF Touched(cand) = {} THEN {FALSE} ELSE {Impact(cand, c) < 0 : c \in Touched(cand)}

\* mutation of Saturate: a commit leaves bin_saturation as it was
SaturateNothing(cand, ratio) == bin_saturation

\* mutation of Saturate: the whole impact is added, whatever the share
SaturateUnscaled(cand, ratio) ==
    [bin \in DOMAIN bin_saturation |->
        [set \in Sets |->
            IF <<bin, set>> \in Touched(cand)
            THEN FAdd(bin_saturation[bin][set], Frac(Impact(cand, <<bin, set>>), 1))
            ELSE bin_saturation[bin][set]]]

\* bin_saturation after the candidate's impact, scaled by ratio, is added to the touched cells
Saturate(cand, ratio) ==
    [bin \in DOMAIN bin_saturation |->
        [set \in Sets |->
            IF <<bin, set>> \in Touched(cand)
            THEN FAdd(bin_saturation[bin][set],
                      FMul(Frac(Impact(cand, <<bin, set>>), 1), ratio))
            ELSE bin_saturation[bin][set]]]

\* mutation of PrlAlpha: the dual lease is always granted its full share
PrlAlphaOne(cand) == One

\* the smallest set_alpha over the cells the candidate would fill
PrlAlpha(cand) ==
    LET target == Frac(bin_target, 1)
        sat(c) == bin_saturation[c[1]][c[2]]
        filling == {c \in Cells :
                       /\ FLe(target, FAdd(sat(c), Frac(Impact(cand, c), 1)))
                       /\ Impact(cand, c) # 0}
        set_alpha(c) == FDivInt(FSub(target, sat(c)), Impact(cand, c))
        below == {c \in filling : FLt(set_alpha(c), One)}
    IN IF below = {} THEN One
       ELSE set_alpha(CHOOSE c \in below : \A d \in below : ~FLt(set_alpha(d), set_alpha(c)))

\* one pass of the loop body for the candidate the heap handed out
prl_iteration(cand, neg_impact) ==
    LET a == [Alloc EXCEPT !.ppuc_tree = ppuc_tree \ {cand}]
        key == Low32(cand.ref_id)
        target == Frac(bin_target, 1)
        num_unsuitable ==
            Cardinality({c \in Cells :
                FLt(target, FAdd(bin_saturation[c[1]][c[2]], Frac(Impact(cand, c), 1)))})
        num_full_bins ==
            Cardinality({c \in Cells : FLe(target, bin_saturation[c[1]][c[2]])})
        acceptable_ratio == IF num_full_bins = 0 THEN PrlAlpha(cand) ELSE Zero
    IN IF key \notin DOMAIN leases
       THEN Outcome(a, "panic", "panic_unwrap", cand, Zero, FALSE)
       ELSE IF cand.old_lease # leases[key]
       THEN Outcome(a, "loop", "stale", cand, Zero, FALSE)
       ELSE IF key \in DOMAIN dual_leases
       THEN Outcome(a, "loop", "has_dual", cand, Zero, FALSE)
       ELSE IF neg_impact
       THEN Outcome(a, "loop", "neg_impact", cand, Zero, FALSE)
       ELSE IF num_unsuitable < 1
       THEN Outcome([a EXCEPT !.leases = Put(leases, key, cand.lease),
                              !.ppuc_tree = (ppuc_tree \ {cand})
                                  \cup get_ppuc(cand.ref_id, cand.lease, ri_hists[cand.ref_id]),
                              !.bin_saturation = Saturate(cand, One)],
                    "loop", "single", cand, One, FALSE)
       ELSE IF FLt(min_alpha, acceptable_ratio)
       THEN Outcome([a EXCEPT !.dual_leases =
                                  Put(dual_leases, cand.ref_id, <<acceptable_ratio, cand.lease>>),
                              !.bin_saturation = Saturate(cand, acceptable_ratio)],
                    "loop", "dual", cand, acceptable_ratio, FALSE)
       ELSE Outcome(a, "loop", "refuse_alpha", cand, acceptable_ratio, FALSE)

\* prl: pop the best candidate and run one iteration
PrlIterate ==
    /\ pc = "loop"
    /\ alg = "prl"
    /\ ppuc_tree # {}
    /\ \E cand \in HeapTop(ppuc_tree) :
         \E neg_impact \in (IF Low32(cand.ref_id) \in DOMAIN leases
                            THEN NegImpactChoices(cand) ELSE {FALSE}) :
         \E out \in {prl_iteration(cand, neg_impact)} : Install(out)

\* prl: the heap is empty, the LeaseResults are returned
PrlReturn ==
    /\ pc = "loop"
    /\ alg = "prl"
    /\ ppuc_tree = {}
    /\ pc' = "done"
    /\ event' = Ev("return_heap_empty", NoCand, Zero, FALSE)
    /\ UNCHANGED <<inputs, leases, dual_leases, cost_per_phase, ppuc_tree, dual_lease_phases,
                   past_lease_values, last_lease_cost, bin_saturation, llt_size, unpruned,
                   predicted, image, committed>>

\* ---------------------------------------------------------------- the LLT pruner
get_num_leases_per_phase(ls) ==
    [phase_id \in {PhaseOf(ref) : ref \in DOMAIN ls} |->
        Cardinality({ref \in DOMAIN ls : PhaseOf(ref) = phase_id})]

\* importance_per_reference: the counts of the histogram stored under the leases key
Importance(hists, reference) ==
    SumSet(DOMAIN hists[reference],
           [ri \in DOMAIN hists[reference] |-> hists[reference][ri].count])

\* mutation of KeptOfPhase: the loop over importance_vec stops one entry early
KeptOfPhaseShort(ls, hists, size, phase_id) ==
    LET refs == {ref \in DOMAIN ls : PhaseOf(ref) = phase_id}
    IN {kept \in SUBSET refs :
          /\ Cardinality(kept) = Min2(size, Cardinality(refs) - 1)
          /\ \A k \in kept : \A d \in refs \ kept :
                Importance(hists, d) <= Importance(hists, k)}

\* the references of one phase that can fill the first size places of importance_vec:
\* the sort is stable over the order the HashMap hands the references out
KeptOfPhase(ls, hists, size, phase_id) ==
    LET refs == {ref \in DOMAIN ls : PhaseOf(ref) = phase_id}
    IN {kept \in SUBSET refs :
          /\ Cardinality(kept) = Min2(size, Cardinality(refs))
          /\ \A k \in kept : \A d \in refs \ kept :
                Importance(hists, d) <= Importance(hists, k)}

KeptChoices(ls, hists, size) ==
    {kept \in SUBSET (DOMAIN ls) :
        \A phase_id \in DOMAIN get_num_leases_per_phase(ls) :
            {ref \in kept : PhaseOf(ref) = phase_id} \in KeptOfPhase(ls, hists, size, phase_id)}

\* mutation of prune_leases_to_fit_llt: the dual leases are not filtered
PruneLeasesOnly(ls, duals, kept) ==
    [leases |-> [ref \in kept |-> ls[ref]], dual_leases |-> duals]

\* pruned_leases and pruned_dual_leases for one choice of the kept references
prune_leases_to_fit_llt(ls, duals, kept) ==
    [leases |-> [ref \in kept |-> ls[ref]],
     dual_leases |-> [ref \in kept \cap DOMAIN duals |-> duals[ref]]]

\* one call of the pruner on the current LeaseResults; get_ref_hist unwraps the histogram
PruneCall(size, next_pc) ==
    /\ llt_size' = size
    /\ unpruned' = [leases |-> leases, dual_leases |-> dual_leases]
    /\ IF \E ref \in DOMAIN leases : ref \notin DOMAIN ri_hists
       THEN /\ pc' = "panic"
            /\ event' = Ev("panic_unwrap", NoCand, Zero, FALSE)
            /\ UNCHANGED <<leases, dual_leases>>
       ELSE \E kept \in KeptChoices(leases, ri_hists, size) :
            /\ pc' = next_pc
            /\ event' = Ev("prune", NoCand, Zero, FALSE)
            /\ \E pruned \in {prune_leases_to_fit_llt(leases, dual_leases, kept)} :
                  /\ leases' = pruned.leases
                  /\ dual_leases' = pruned.dual_leases
    /\ UNCHANGED <<inputs, cost_per_phase, ppuc_tree, dual_lease_phases, past_lease_values,
                   last_lease_cost, bin_saturation, predicted, image, committed>>

\* run_prl / run_shel_cshel / run_cshel: the returned LeaseResults are pruned
Prune ==
    /\ pc = "done"
    /\ \E size \in LltSizes : PruneCall(size, "pruned")

\* the pruner applied once more to its own result, with the same arguments
PruneAgain ==
    /\ pc = "pruned"
    /\ PruneCall(llt_size, "pruned2")

\* ---------------------------------------------------------------- the predictor
\* lease_hits: the new_hits of every candidate from the base lease 0, under the candidate's
\* ref_id (the key of ri_hists) and lease
LeaseHits(hists) ==
    LET from0(ref_id) == get_ppuc(ref_id, 0, hists[ref_id])
    IN [ref_id \in {r \in DOMAIN hists : from0(r) # {}} |->
           [lease \in {p.lease : p \in from0(ref_id)} |->
               (CHOOSE p \in from0(ref_id) : p.lease = lease).new_hits]]

lease_hits == LeaseHits(ri_hists)

\* trace_length: num * sample_rate summed over samples_per_phase
trace_length ==
    SumSet(DOMAIN samples_per_phase,
           [phase \in DOMAIN samples_per_phase |-> samples_per_phase[phase] * sample_rate])

\* first_misses: the number of distinct tags of the input
misses_from_first_access == Cardinality({trace[i].tag : i \in DOMAIN trace})

\* lease_vector: (phase, address, short lease, long lease, percentage) for every key of leases
LeaseVector(ls, duals) ==
    [phase_address \in DOMAIN ls |->
        [phase |-> PhaseOf(phase_address),
         address |-> Low24(phase_address).addr,
         lease_short |-> IF ls[phase_address] > 0 THEN ls[phase_address] ELSE 1,
         lease_long |-> IF phase_address \in DOMAIN duals THEN duals[phase_address][2] ELSE 0,
         percentage |-> IF phase_address \in DOMAIN duals
                        THEN FSub(One, duals[phase_address][1]) ELSE One]]

\* what one entry of lease_vector adds to num_hits
EntryHits(hits, e) ==
    LET table == hits[MkId(0, e.phase, e.address)]
    IN (IF e.lease_short \in DOMAIN table
        THEN FRound(FMulInt(table[e.lease_short], e.percentage)) ELSE 0)
       + (IF e.lease_long \in DOMAIN table
          THEN FRound(FMulInt(table[e.lease_long], FSub(One, e.percentage))) ELSE 0)

\* num_hits and the returned miss count; panic when an unwrap or the u64 subtraction fails
dump_leases(ls, duals, hits, length, sampling_rate, first_misses) ==
    LET lease_vector == LeaseVector(ls, duals)
        missing == \E k \in DOMAIN lease_vector :
                      MkId(0, lease_vector[k].phase, lease_vector[k].address) \notin DOMAIN hits
        num_hits == SumSet(DOMAIN lease_vector,
                           [k \in DOMAIN lease_vector |-> EntryHits(hits, lease_vector[k])])
    IN IF missing THEN [panic |-> TRUE, num_hits |-> 0, misses |-> 0]
       ELSE IF length < num_hits * sampling_rate
       THEN [panic |-> TRUE, num_hits |-> num_hits, misses |-> 0]
       ELSE [panic |-> FALSE, num_hits |-> num_hits,
             misses |-> length - num_hits * sampling_rate + first_misses]

\* get_misses: the pruned LeaseResults are handed to dump_leases
DumpLeases ==
    /\ pc = "pruned"
    /\ \E out \in {dump_leases(leases, dual_leases, lease_hits, trace_length, sample_rate,
                                misses_from_first_access)} :
          IF out.panic
          THEN /\ pc' = "panic"
               /\ event' = Ev("panic_dump", NoCand, Zero, FALSE)
               /\ UNCHANGED predicted
          ELSE /\ pc' = "dumped"
               /\ event' = Ev("dump", NoCand, Zero, FALSE)
               /\ predicted' = [num_hits |-> out.num_hits, misses |-> out.misses]
    /\ UNCHANGED <<inputs, leases, dual_leases, cost_per_phase, ppuc_tree, dual_lease_phases,
                   past_lease_values, last_lease_cost, bin_saturation, llt_size, unpruned,
                   image, committed>>

\* ---------------------------------------------------------------- specification
Algs == {"shel", "cshel", "prl"}

MaskOf(cfg) == calculate_set_mask(cfg[1], calculate_num_ways(cfg[2], cfg[1]))

\* the state when the main loop of shel_cshel is entered
InitShelCshel(a, built) ==
    /\ leases = InitLeases(built.hists)
    /\ cost_per_phase = InitCostPerPhase(built.hists, a = "cshel", set_mask + 1, sample_rate)
    /\ ppuc_tree = AllPpucs(built.hists, 1)
    /\ binned_ris = EmptyMap
    /\ binned_freqs = EmptyMap
    /\ bin_width = 0
    /\ bin_saturation = EmptyMap

\* the state when the main loop of prl is entered
InitPrl(binned, built) ==
    /\ leases = PrlInitLeases(binned.bin_freqs)
    /\ cost_per_phase = EmptyMap
    /\ ppuc_tree = AllPpucs(built.hists, 1)
    /\ binned_ris = binned.bin_ri_distribution
    /\ binned_freqs = binned.bin_freqs
    /\ bin_width = binned.bin_width
    /\ bin_saturation = PrlInitSaturation(binned.bin_ri_distribution, binned.bin_freqs,
                                          set_mask + 1, sample_rate)

\* run_this up to the main loop of the allocator a, for the configuration cfg and the
\* samples raw
InitWith(cfg, raw, a) ==
        \E built \in {build_ri_hists(MkTrace(raw), a = "cshel", MaskOf(cfg))} :
         /\ cache_size = cfg[1]
         /\ set_mask = MaskOf(cfg)
         /\ alg = a
         /\ sample_rate \in SampleRates
         /\ discretize_width \in DiscretizeWidths
         /\ trace = MkTrace(raw)
         /\ reader = [is_head |-> FALSE, next |-> Len(raw) + 1]
         /\ ri_hists = built.hists
         /\ samples_per_phase = built.samples_per_phase
         /\ IF a = "prl"
            THEN \E num_bins \in BinCounts :
                    InitPrl(get_prl_hists(MkTrace(raw), num_bins, MaskOf(cfg)), built)
            ELSE InitShelCshel(a, built)
         /\ dual_leases = EmptyMap
         /\ dual_lease_phases = << >>
         /\ past_lease_values = EmptyMap
         /\ last_lease_cost = EmptyMap
         /\ llt_size = 0
         /\ unpruned = [leases |-> EmptyMap, dual_leases |-> EmptyMap]
         /\ predicted = [num_hits |-> 0, misses |-> 0]
         /\ mem_size = 0
         /\ image = NoImage
         /\ pc = "loop"
         /\ event = Ev("init", NoCand, Zero, FALSE)
         /\ committed = << >>

Init ==
    \E cfg \in CacheConfigs, n \in 1 .. MaxSamples :
      \E raw \in [1 .. n -> RawSamples(MaskOf(cfg))], a \in Algs :
        InitWith(cfg, raw, a)

Next ==
    \/ ShelCshelIterate
    \/ ShelCshelReturn
    \/ PrlIterate
    \/ PrlReturn
    \/ Prune
    \/ PruneAgain
    \/ DumpLeases

Spec == Init /\ [][Next]_vars

\* --- runs of shel_cshel on traces of one reference sampled with one tag and one reuse
\* interval, up to ScenarioSamples samples long, for fully associative caches
ScenarioInit ==
    \E n \in 1 .. ScenarioSamples, ri \in SampledRIs, cache \in ScenarioCaches :
      \E a \in {"shel", "cshel"} :
        InitWith(<<cache, 0>>, [i \in 1 .. n |-> [phase |-> 0, addr |-> 1, tag |-> 0, ri |-> ri]],
                 a)

ScenarioNext ==
    \/ ShelCshelIterate
    \/ ShelCshelReturn
    \/ Prune
    \/ DumpLeases

ScenarioSpec == ScenarioInit /\ [][ScenarioNext]_vars

\* ---------------------------------------------------------------- claims
Running == pc \in {"loop", "done"}
Pruned == pc \in {"pruned", "pruned2"}
RefsOfPhase(ls, phase_id) == {ref \in DOMAIN ls : PhaseOf(ref) = phase_id}
PhasesOf(ls) == {PhaseOf(ref) : ref \in DOMAIN ls}

\* C1: in shel_cshel, after initialisation and after every iteration, no
\* cost_per_phase[p][s] exceeds budget_per_phase[p]
C1_CostWithinBudget ==
    (alg \in {"shel", "cshel"} /\ Running) =>
        \A p \in DOMAIN cost_per_phase : \A set \in Sets :
            cost_per_phase[p][set] <= budget_per_phase[p]

\* C2: during a run of prl or shel_cshel and in the LeaseResults returned, every key
\* of dual_leases is a key of leases and its long lease is greater than the short lease
C2_DualKeysAreLeaseKeys ==
    Running =>
        \A ref \in DOMAIN dual_leases :
            /\ ref \in DOMAIN leases
            /\ dual_leases[ref][2] > leases[ref]

\* C3: every alpha stored in dual_leases satisfies min_alpha < alpha <= 1
C3_AlphaAboveMinAlpha ==
    Running =>
        \A ref \in DOMAIN dual_leases :
            /\ FLt(min_alpha, dual_leases[ref][1])
            /\ FLe(dual_leases[ref][1], One)

\* C4: when shel_cshel returns, no phase has more than one reference in dual_leases
C4_OneDualLeasePerPhase ==
    (alg \in {"shel", "cshel"} /\ pc = "done") =>
        \A phase_id \in PhasesOf(dual_leases) :
            Cardinality(RefsOfPhase(dual_leases, phase_id)) <= 1

\* C5: during a run of prl or shel_cshel and in the LeaseResults returned, every
\* reference with a sampled RI has a lease >= 1 in leases under its phase_ref
C5_EveryReferenceHasLease ==
    Running =>
        \A ref_id \in DOMAIN ri_hists :
            /\ Low32(ref_id) \in DOMAIN leases
            /\ leases[Low32(ref_id)] >= 1

C7_PrunedFitsLlt ==
    Pruned =>
        /\ \A phase_id \in PhasesOf(leases) :
              Cardinality(RefsOfPhase(leases, phase_id)) <= llt_size
        /\ DOMAIN dual_leases \subseteq DOMAIN leases

C7_Witness ==
    /\ pc = "pruned"
    /\ DOMAIN leases # DOMAIN unpruned.leases
    /\ DOMAIN unpruned.dual_leases # {}
    /\ DOMAIN dual_leases # DOMAIN unpruned.dual_leases

\* C8: the pruner keeps the references with the most samples: within a phase no dropped
\* reference has more samples (over all its RIs) than a kept one, and a dropped
\* reference is in neither leases nor dual_leases
C8_PruneKeepsMostSampled ==
    LET keys(ref) == {ref_id \in DOMAIN ri_hists : Low32(ref_id) = ref}
        total(ref) == SumSet(keys(ref), [ref_id \in keys(ref) |-> Importance(ri_hists, ref_id)])
    IN pc = "pruned" =>
          \A d \in (DOMAIN unpruned.leases) \ (DOMAIN leases) :
              /\ d \notin DOMAIN dual_leases
              /\ \A k \in RefsOfPhase(leases, PhaseOf(d)) : total(d) <= total(k)

\* C9: pruning the pruned LeaseResults again, with the same ri_hists and llt_size,
\* changes neither leases nor dual_leases
C9_PruneIdempotent ==
    pc = "pruned2" => (leases = unpruned.leases /\ dual_leases = unpruned.dual_leases)

C9_Witness ==
    /\ pc = "pruned2"
    /\ alg \in {"shel", "cshel"}
    /\ DOMAIN leases # DOMAIN InitLeases(ri_hists)
    /\ DOMAIN dual_leases # {}

\* C10: when no phase has more than llt_size references in leases, pruning changes
\* neither leases nor dual_leases
C10_PruneLosesNothing ==
    (/\ pc = "pruned"
     /\ \A phase_id \in PhasesOf(unpruned.leases) :
           Cardinality(RefsOfPhase(unpruned.leases, phase_id)) <= llt_size)
    => (leases = unpruned.leases /\ dual_leases = unpruned.dual_leases)

\* the outcomes of an iteration that reject the popped candidate
Rejections ==
    {"stale", "set_full", "phase_dual", "has_dual", "neg_impact", "refuse_alpha",
     "refuse_adjust"}

\* C11: every rejection of a candidate in shel_cshel and prl leaves the run in its main
\* loop, and a C-SHEL back-adjustment that fails because the recomputed alpha of an
\* affected phase is <= min_alpha never aborts the run
C11_RejectionsNeverAbort ==
    /\ event.kind \in Rejections => pc = "loop"
    /\ event.kind # "panic_adjust_unwrap"

\* C12: for a single-phase trace of 8 samples of one reference with one tag, all with
\* RI 4, and cache_size 1 (fully associative), shel_cshel returns the lease 4 for the
\* reference and no dual lease, and dump_leases predicts 8 hits
C12_SingleReferenceScenario ==
    LET ref == MkId(0, 0, 1)
        scenario == /\ Len(trace) = 8
                    /\ \A i \in DOMAIN trace : trace[i].backward_ri = 4
                    /\ cache_size = 1
                    /\ set_mask = 0
    IN scenario =>
          /\ pc \in {"done", "pruned", "dumped"} =>
                (leases[ref] = 4 /\ DOMAIN dual_leases = {})
          /\ pc = "dumped" => predicted.num_hits = 8

\* hits(x) and cost(x) as the PPUC contract states them, for any lease x
ContractHits(ref_ri_hist, x) ==
    SumSet({ri \in DOMAIN ref_ri_hist : ri <= x},
           [ri \in DOMAIN ref_ri_hist |-> ref_ri_hist[ri].count])
ContractCost(ref_ri_hist, x) ==
    SumSet({ri \in DOMAIN ref_ri_hist : ri <= x},
           [ri \in DOMAIN ref_ri_hist |-> ref_ri_hist[ri].count * ri])
    + (SumSet(DOMAIN ref_ri_hist, [ri \in DOMAIN ref_ri_hist |-> ref_ri_hist[ri].count])
       - ContractHits(ref_ri_hist, x)) * x
\* the base leases get_ppuc is called with: 0 (lease_hits), the initial 1, a sampled RI
BaseLeases(ref_ri_hist) == {0, 1} \cup DOMAIN ref_ri_hist

\* C13: for every reference histogram and every base lease, sampled or not, get_ppuc
\* emits exactly one record per sampled RI L > base_lease and none for L <= base_lease,
\* with old_lease = base_lease, new_hits = hits(L) - hits(base_lease) and
\* ppuc = new_hits / (cost(L) - cost(base_lease))
C13_GetPpucContract ==
    \A ref_id \in DOMAIN ri_hists : \A base_lease \in BaseLeases(ri_hists[ref_id]) :
        LET hist == ri_hists[ref_id]
            out == get_ppuc(ref_id, base_lease, hist)
        IN /\ {p.lease : p \in out} = {ri \in DOMAIN hist : ri > base_lease}
           /\ Cardinality(out) = Cardinality({p.lease : p \in out})
           /\ \A p \in out :
                /\ p.old_lease = base_lease
                /\ p.ref_id = ref_id
                /\ p.new_hits = ContractHits(hist, p.lease) - ContractHits(hist, base_lease)
                /\ p.ppuc[1] * (ContractCost(hist, p.lease) - ContractCost(hist, base_lease))
                   = p.new_hits * p.ppuc[2]

RECURSIVE FSumSet(_, _)
FSumSet(S, f) ==
    IF S = {} THEN Zero
    ELSE LET x == CHOOSE y \in S : TRUE IN FAdd(f[x], FSumSet(S \ {x}, f))

\* the lease_hits entry of a lease of a reference, 0 when there is none
HitsEntry(ref, lease) ==
    LET key == MkId(0, PhaseOf(ref), Low24(ref).addr)
    IN IF key \in DOMAIN lease_hits /\ lease \in DOMAIN lease_hits[key]
       THEN lease_hits[key][lease] ELSE 0
\* the short lease as written to the output (0 becomes 1) and the long lease of a reference
ShortLease(ref) == IF leases[ref] > 0 THEN leases[ref] ELSE 1
LongLease(ref) == IF ref \in DOMAIN dual_leases THEN dual_leases[ref][2] ELSE 0

\* mutation of StoredLongShare: a reference without a dual lease counted as all long
StoredLongShareAllLong(ref) == IF ref \in DOMAIN dual_leases THEN dual_leases[ref][1] ELSE One
\* the share of the accesses of a reference that get its long lease: the value stored in
\* dual_leases, none without a dual lease
StoredLongShare(ref) == IF ref \in DOMAIN dual_leases THEN dual_leases[ref][1] ELSE Zero

BuildSamples == 2
\* reuse intervals as read from the file, the cold ones negative as 32-bit values
SignedRIs == {1, 2, -1, -2}
\* what the phase_id_ref column holds above bit 31: nothing, or a digit too many
HighBits == {0, 1}

BuildInit ==
    \E n \in 1 .. BuildSamples :
    \E raw \in [1 .. n -> {[phase |-> r[1], addr |-> r[2], tag |-> 0, ri |-> ri, high |-> h] :
                              r \in Refs, ri \in SignedRIs, h \in HighBits}] :
        /\ alg \in {"shel", "cshel"}
        /\ trace = [i \in DOMAIN raw |->
                       [MkTrace(raw)[i] EXCEPT !.phase_id_ref.set = raw[i].high]]
        /\ reader = [is_head |-> (alg = "cshel"), next |-> 1]
        /\ ri_hists = EmptyMap
        /\ samples_per_phase = EmptyMap
        /\ cache_size = 2
        /\ set_mask = 0
        /\ sample_rate = 1
        /\ discretize_width = 1
        /\ leases = EmptyMap
        /\ cost_per_phase = EmptyMap
        /\ ppuc_tree = {}
        /\ binned_ris = EmptyMap
        /\ binned_freqs = EmptyMap
        /\ bin_width = 0
        /\ bin_saturation = EmptyMap
        /\ dual_leases = EmptyMap
        /\ dual_lease_phases = << >>
        /\ past_lease_values = EmptyMap
        /\ last_lease_cost = EmptyMap
        /\ llt_size = 0
        /\ unpruned = [leases |-> EmptyMap, dual_leases |-> EmptyMap]
        /\ predicted = [num_hits |-> 0, misses |-> 0]
        /\ mem_size = 0
        /\ image = NoImage
        /\ pc = "build"
        /\ event = Ev("init", NoCand, Zero, FALSE)
        /\ committed = << >>

\* one call of process_sample from the loops of build_ri_hists (two passes for C-SHEL)
ProcessSample ==
    /\ pc = "build"
    /\ LET out == process_sample([hists |-> ri_hists, samples_per_phase |-> samples_per_phase],
                                 trace[reader.next], reader.is_head, cshel, set_mask,
                                 build_phase_transitions(trace))
       IN /\ ri_hists' = out.hists
          /\ samples_per_phase' = out.samples_per_phase
    /\ reader' = IF reader.next < Len(trace) THEN [reader EXCEPT !.next = @ + 1]
                 ELSE IF reader.is_head THEN [is_head |-> FALSE, next |-> 1]
                 ELSE [reader EXCEPT !.next = @ + 1]
    /\ pc' = IF reader.next = Len(trace) /\ ~reader.is_head THEN "built" ELSE "build"
    /\ event' = Ev("sample", NoCand, Zero, FALSE)
    /\ UNCHANGED <<alg, trace, mem_size, cache_size, set_mask, sample_rate, discretize_width,
                   binned_ris,
                   binned_freqs, bin_width, leases, dual_leases, cost_per_phase, ppuc_tree,
                   dual_lease_phases, past_lease_values, last_lease_cost, bin_saturation,
                   llt_size, unpruned, predicted, image, committed>>

BuildNext == ProcessSample
BuildSpec == BuildInit /\ [][BuildNext]_vars

\* the (head_cost, tail_cost) a histogram holds for a reference, an RI and a phase
CostEntry(hists, ref, ri, phase) ==
    IF ref \in DOMAIN hists /\ ri \in DOMAIN hists[ref]
    THEN Get(hists[ref][ri].cost, phase, <<0, 0>>) ELSE <<0, 0>>

\* C15: a sample whose backward_ri is negative as a signed 32-bit value is stored in the
\* histogram under the key 0x00FFFFFF, and in C-SHEL mode it adds nothing to the head cost
\* or the tail cost of any phase
C15_ColdSampleAddsNoCost ==
    [][(pc = "build" /\ trace[reader.next].backward_ri < 0) =>
          LET ref == SetPhaseRef(trace[reader.next], set_mask)
          IN /\ ref \in DOMAIN ri_hists'
             /\ ColdRI \in DOMAIN ri_hists'[ref]
             /\ DOMAIN ri_hists'[ref] = DOMAIN Get(ri_hists, ref, EmptyMap) \cup {ColdRI}
             /\ cshel =>
                  \A r \in DOMAIN ri_hists' : \A ri \in DOMAIN ri_hists'[r] :
                  \A phase \in DOMAIN ri_hists'[r][ri].cost :
                      CostEntry(ri_hists', r, ri, phase) = CostEntry(ri_hists, r, ri, phase)]_vars

C17_WideIdRejected ==
    /\ pc = "built" => \A i \in DOMAIN trace : trace[i].phase_id_ref.set = 0
    /\ \A key \in DOMAIN ri_hists : key.set \in 0 .. set_mask

\* the longest input of the runs checked for termination
LiveSamples == 2
\* the program before run_this has read its command line and its input
LiveInit ==
    /\ pc = "start"
    /\ alg = "shel"
    /\ trace = << >>
    /\ reader = [is_head |-> FALSE, next |-> 1]
    /\ ri_hists = EmptyMap
    /\ samples_per_phase = EmptyMap
    /\ cache_size = 0
    /\ set_mask = 0
    /\ sample_rate = 0
    /\ discretize_width = 0
    /\ leases = EmptyMap
    /\ cost_per_phase = EmptyMap
    /\ ppuc_tree = {}
    /\ binned_ris = EmptyMap
    /\ binned_freqs = EmptyMap
    /\ bin_width = 0
    /\ bin_saturation = EmptyMap
    /\ dual_leases = EmptyMap
    /\ dual_lease_phases = << >>
    /\ past_lease_values = EmptyMap
    /\ last_lease_cost = EmptyMap
    /\ llt_size = 0
    /\ unpruned = [leases |-> EmptyMap, dual_leases |-> EmptyMap]
    /\ predicted = [num_hits |-> 0, misses |-> 0]
    /\ mem_size = 0
    /\ image = NoImage
    /\ event = Ev("start", NoCand, Zero, FALSE)
    /\ committed = << >>

\* run_this: builds the histograms and enters the main loop of the chosen allocator
RunThis ==
    /\ pc = "start"
    /\ \E cfg \in CacheConfigs, n \in 1 .. LiveSamples :
       \E raw \in [1 .. n -> RawSamples(MaskOf(cfg))], a \in Algs, num_bins \in BinCounts,
          rate \in SampleRates :
          /\ cache_size' = cfg[1]
          /\ set_mask' = MaskOf(cfg)
          /\ alg' = a
          /\ sample_rate' = rate
          /\ discretize_width' \in DiscretizeWidths
          /\ trace' = MkTrace(raw)
          /\ reader' = [is_head |-> FALSE, next |-> Len(raw) + 1]
          /\ \E built \in {build_ri_hists(MkTrace(raw), a = "cshel", MaskOf(cfg))} :
                /\ ri_hists' = built.hists
                /\ samples_per_phase' = built.samples_per_phase
                /\ ppuc_tree' = AllPpucs(built.hists, 1)
                /\ IF a = "prl"
                   THEN \E binned \in {get_prl_hists(MkTrace(raw), num_bins, MaskOf(cfg))} :
                           /\ leases' = PrlInitLeases(binned.bin_freqs)
                           /\ cost_per_phase' = EmptyMap
                           /\ binned_ris' = binned.bin_ri_distribution
                           /\ binned_freqs' = binned.bin_freqs
                           /\ bin_width' = binned.bin_width
                           /\ bin_saturation' =
                                  PrlInitSaturation(binned.bin_ri_distribution,
                                                    binned.bin_freqs, MaskOf(cfg) + 1, rate)
                   ELSE /\ leases' = InitLeases(built.hists)
                        /\ cost_per_phase' = InitCostPerPhase(built.hists, a = "cshel",
                                                              MaskOf(cfg) + 1, rate)
                        /\ binned_ris' = EmptyMap
                        /\ binned_freqs' = EmptyMap
                        /\ bin_width' = 0
                        /\ bin_saturation' = EmptyMap
    /\ pc' = "loop"
    /\ event' = Ev("init", NoCand, Zero, FALSE)
    /\ UNCHANGED <<mem_size, dual_leases, dual_lease_phases, past_lease_values,
                   last_lease_cost, llt_size, unpruned, predicted, image, committed>>

LiveNext == RunThis \/ Next

\* the positions from which code remains to run: LiveNext is enabled exactly there
ActivePcs == {"start", "loop", "done", "pruned"}
\* the enabling condition of LiveNext read off the program counter; no step of LiveNext
\* is a Pending step, so the fairness below asks for steps of LiveNext only
Pending ==
    /\ pc \in ActivePcs
    /\ pc' = "stepping"
    /\ UNCHANGED <<inputs, leases, dual_leases, cost_per_phase, ppuc_tree, dual_lease_phases,
                   past_lease_values, last_lease_cost, bin_saturation, llt_size, unpruned,
                   predicted, image, event, committed>>
\* the program is sequential code: wherever a step can run, a step does run
LiveSpec == LiveInit /\ [][LiveNext]_vars /\ WF_vars(Pending \/ LiveNext)

\* C18: for every finite input the main loop of prl or shel_cshel terminates and returns
\* a LeaseResults
C18_LoopReturnsLeaseResults == <>(pc = "done")

\* ---------------------------------------------------------------- gen_lease_c_file
\* words of a phase block before its two tables
HeaderWords == 16
\* the highest phase of the lease vectors handed to gen_lease_c_file
GenPhases == 3
GenAddresses == {1, 2}
\* cli.mem_size, in bytes
GenMemSizes == {80, 144, 160}

calculate_max_scopes(mem, llt) == mem \div ((2 * llt + HeaderWords) * 4)

\* phase_lease_arr: phase -> the addresses with an entry, the dummy phases included
PhaseLeaseArr(lease_vector, max_num_scopes) ==
    LET phases == {lease_vector[k].phase : k \in DOMAIN lease_vector}
        dummies == {phase \in 0 .. max_num_scopes - 1 : phase \notin phases}
    IN [phase \in phases \cup dummies |->
           IF phase \in phases
           THEN {lease_vector[k].address : k \in {j \in DOMAIN lease_vector :
                                                     lease_vector[j].phase = phase}}
           ELSE {0}]

\* the fatal errors, the unwraps and the blocks written by gen_lease_c_file
gen_lease_c_file(lease_vector, llt, mem, max_num_scopes) ==
    LET phases == {lease_vector[k].phase : k \in DOMAIN lease_vector}
        phase_lease_arr == PhaseLeaseArr(lease_vector, max_num_scopes)
        too_many == \E phase \in DOMAIN phase_lease_arr :
                       Cardinality(phase_lease_arr[phase]) > llt
        no_phase == phases = {}
        too_far == \E phase \in phases : phase > max_num_scopes
        blocks == Cardinality(DOMAIN phase_lease_arr)
        missing == \E phase_index \in 0 .. blocks - 1 : phase_index \notin DOMAIN phase_lease_arr
    IN IF too_many \/ no_phase \/ too_far \/ missing
       THEN [panic |-> TRUE, blocks |-> 0, words |-> 0]
       ELSE [panic |-> FALSE, blocks |-> blocks, words |-> blocks * (HeaderWords + 2 * llt)]

GenInit ==
    \E refs \in SUBSET {MkId(0, phase, addr) : phase \in 0 .. GenPhases, addr \in GenAddresses} :
        /\ leases = [ref \in refs |-> 1]
        /\ dual_leases = EmptyMap
        /\ llt_size \in LltSizes
        /\ mem_size \in GenMemSizes
        /\ image = NoImage
        /\ pc = "gen"
        /\ alg = "shel"
        /\ trace = << >>
        /\ reader = [is_head |-> FALSE, next |-> 1]
        /\ ri_hists = EmptyMap
        /\ samples_per_phase = EmptyMap
        /\ cache_size = 2
        /\ set_mask = 0
        /\ sample_rate = 1
        /\ discretize_width = 1
        /\ cost_per_phase = EmptyMap
        /\ ppuc_tree = {}
        /\ binned_ris = EmptyMap
        /\ binned_freqs = EmptyMap
        /\ bin_width = 0
        /\ bin_saturation = EmptyMap
        /\ dual_lease_phases = << >>
        /\ past_lease_values = EmptyMap
        /\ last_lease_cost = EmptyMap
        /\ unpruned = [leases |-> EmptyMap, dual_leases |-> EmptyMap]
        /\ predicted = [num_hits |-> 0, misses |-> 0]
        /\ event = Ev("init", NoCand, Zero, FALSE)
        /\ committed = << >>

\* gen_lease_c_file called with the lease vector of the LeaseResults and max_scopes
GenLeaseCFile ==
    /\ pc = "gen"
    /\ \E out \in {gen_lease_c_file(LeaseVector(leases, dual_leases), llt_size, mem_size,
                                    calculate_max_scopes(mem_size, llt_size))} :
          IF out.panic
          THEN /\ pc' = "panic"
               /\ event' = Ev("panic_gen", NoCand, Zero, FALSE)
               /\ UNCHANGED image
          ELSE /\ pc' = "generated"
               /\ event' = Ev("gen", NoCand, Zero, FALSE)
               /\ image' = [blocks |-> out.blocks, words |-> out.words]
    /\ UNCHANGED <<inputs, leases, dual_leases, cost_per_phase, ppuc_tree, dual_lease_phases,
                   past_lease_values, last_lease_cost, bin_saturation, llt_size, unpruned,
                   predicted, committed>>

GenNext == GenLeaseCFile
GenSpec == GenInit /\ [][GenNext]_vars

\* C19: when gen_lease_c_file completes without a fatal error, the image fits the declared
\* array of mem_size/4 words: blocks * (16 + 2 * llt_size) <= mem_size / 4, no phase index
\* is above max_scopes and no phase has more than llt_size references
C19_ImageFitsDeclaredArray ==
    pc = "generated" =>
        /\ image.blocks * (HeaderWords + 2 * llt_size) <= mem_size \div 4
        /\ image.words <= mem_size \div 4
        /\ \A ref \in DOMAIN leases :
              /\ PhaseOf(ref) <= calculate_max_scopes(mem_size, llt_size)
              /\ Cardinality(RefsOfPhase(leases, PhaseOf(ref))) <= llt_size

\* C20: a popped candidate that is not committed (stale, skipped for a dual lease or a full
\* set, refused in the dual-lease path) leaves leases, dual_leases, the cost tables and
\* bin_saturation as they were, and the heap loses the popped entry and nothing else
C20_RejectedPopChangesNothing ==
    [][(pc = "loop" /\ event'.kind \in Rejections) =>
          /\ UNCHANGED <<leases, dual_leases, cost_per_phase, bin_saturation, last_lease_cost,
                         past_lease_values, dual_lease_phases>>
          /\ ppuc_tree' = ppuc_tree \ {event'.cand}
          /\ event'.cand \in ppuc_tree]_vars

\* a candidate has been rejected after an earlier one was committed
C20_Witness ==
    /\ pc = "loop"
    /\ event.kind \in Rejections
    /\ committed # << >>
    /\ event.cand.lease # leases[Low32(event.cand.ref_id)]

\* ---------------------------------------------------------------- C21
\* C21: in shel_cshel a popped candidate that is not skipped (not stale, no full set in its
\* phase, its phase without a dual lease, not every phase dual), whose new costs are computed
\* without underflow and fit the budget in every phase and set, is committed as a single lease:
\* leases[ref] becomes the candidate lease, every cost cell grows by exactly its new cost, the
\* PPUCs from the new base lease are pushed, last_lease_cost of the candidate's phase becomes
\* (new_cost, new_cost, ref) in every set, past_lease_values[ref] becomes (lease, old lease) and
\* dual_leases is unchanged.
C21_FittingCandidateCommittedSingle ==
    [][LET cand == event'.cand
           ref == Low32(cand.ref_id)
           phase == PhaseOf(cand.ref_id)
           new_cost == NewPhaseRefCost(cand, leases[ref])
           skipped == \/ cand.old_lease # leases[ref]
                      \/ SetFull(cost_per_phase, phase)
                      \/ Len(dual_lease_phases) = Cardinality(DOMAIN cost_per_phase)
                      \/ phase \in RangeOf(dual_lease_phases)
           fits == \A p \in DOMAIN cost_per_phase : \A s \in Sets :
                       /\ new_cost[p][s] >= 0
                       /\ cost_per_phase[p][s] + new_cost[p][s] <= budget_per_phase[p]
       IN (/\ pc = "loop" /\ alg \in {"shel", "cshel"}
           /\ cand \in ppuc_tree /\ ~skipped /\ fits)
          => /\ leases' = Put(leases, ref, cand.lease)
             /\ \A p \in DOMAIN cost_per_phase : \A s \in Sets :
                    cost_per_phase'[p][s] = cost_per_phase[p][s] + new_cost[p][s]
             /\ DOMAIN cost_per_phase' = DOMAIN cost_per_phase
             /\ ppuc_tree' = (ppuc_tree \ {cand})
                                \cup get_ppuc(cand.ref_id, cand.lease, ri_hists[cand.ref_id])
             /\ \A s \in Sets :
                    last_lease_cost'[phase][s] = <<new_cost[phase][s], new_cost[phase][s], ref>>
             /\ past_lease_values'[ref] = <<cand.lease, leases[ref]>>
             /\ dual_leases' = dual_leases
             /\ dual_lease_phases' = dual_lease_phases]_vars

\* a single lease committed while a phase other than the candidate's carries a cost
C21_Witness ==
    /\ pc = "loop" /\ alg \in {"shel", "cshel"} /\ event.kind = "single"
    /\ leases[Low32(event.cand.ref_id)] = event.cand.lease
    /\ past_lease_values[Low32(event.cand.ref_id)] = <<event.cand.lease, event.cand.old_lease>>
    /\ \E p \in DOMAIN cost_per_phase :
           /\ p # PhaseOf(event.cand.ref_id)
           /\ \E s \in Sets : cost_per_phase[p][s] > 0

\* ---------------------------------------------------------------- C22
\* C22: in shel_cshel a popped, non-skipped candidate that does not fit as a single lease is
\* refused (nothing but the heap changes) when the least (budget - cost) / new_cost over the
\* sets of its own phase is below min_alpha; otherwise, when the least ratio alpha over all
\* phases and sets (at most 1.0) is above min_alpha, every cost cell grows by
\* round(new_cost * alpha) clamped to the budget, dual_leases[ref] becomes (alpha, lease),
\* leases[ref] keeps the old lease and the candidate's phase is marked as having a dual lease.
C22_DualLeaseByGlobalAlpha ==
    [][LET cand == event'.cand
           ref == Low32(cand.ref_id)
           phase == PhaseOf(cand.ref_id)
           skipped == \/ cand.old_lease # leases[ref]
                      \/ SetFull(cost_per_phase, phase)
                      \/ Len(dual_lease_phases) = Cardinality(DOMAIN cost_per_phase)
                      \/ phase \in RangeOf(dual_lease_phases)
           all == (DOMAIN cost_per_phase) \X Sets
       IN (pc = "loop" /\ alg \in {"shel", "cshel"} /\ cand \in ppuc_tree /\ ~skipped)
          => \A new_cost \in {NewPhaseRefCost(cand, leases[ref])} :
             LET defined == \A c \in all : new_cost[c[1]][c[2]] >= 0
                 fits == \A c \in all : cost_per_phase[c[1]][c[2]] + new_cost[c[1]][c[2]]
                                           <= budget_per_phase[c[1]]
                 cells == {c \in all : new_cost[c[1]][c[2]] > 0}
                 ratio(c) == Frac(budget_per_phase[c[1]] - cost_per_phase[c[1]][c[2]],
                                  new_cost[c[1]][c[2]])
                 refused == \E c \in cells : c[1] = phase /\ FLt(ratio(c), min_alpha)
                 least == CHOOSE c \in cells : \A d \in cells : FLe(ratio(c), ratio(d))
             IN (defined /\ ~fits)
                => /\ refused =>
                        /\ pc' = "loop"
                        /\ UNCHANGED <<leases, dual_leases, cost_per_phase, dual_lease_phases,
                                       last_lease_cost, past_lease_values>>
                   /\ (~refused /\ cells # {}) =>
                        \A alpha \in {float_min(One, ratio(least))} :
                          FLt(min_alpha, alpha) =>
                            /\ pc' = "loop"
                            /\ \A c \in all :
                                  cost_per_phase'[c[1]][c[2]] =
                                      Min2(cost_per_phase[c[1]][c[2]]
                                             + FRound(FMulInt(new_cost[c[1]][c[2]], alpha)),
                                           budget_per_phase[c[1]])
                            /\ dual_leases' = Put(dual_leases, ref, <<alpha, cand.lease>>)
                            /\ leases' = leases
                            /\ phase \in RangeOf(dual_lease_phases')]_vars

C24_BackAdjustmentConvertsOtherPhases ==
    [][LET cand == event'.cand
           ref == Low32(cand.ref_id)
           own == PhaseOf(cand.ref_id)
           dualsOf(d, p) == {r \in DOMAIN d : PhaseOf(r) = p}
           touched(p) == \E r \in DOMAIN leases :
                            /\ PhaseOf(r) = p
                            /\ Get(dual_leases', r, << >>) # Get(dual_leases, r, << >>)
       IN (pc = "loop" /\ cshel /\ cand \in ppuc_tree /\ event'.adjusted)
          => /\ \A p \in (DOMAIN cost_per_phase) \ {own} :
                  touched(p) =>
                    /\ Cardinality(dualsOf(dual_leases', p)) = 1
                    /\ p \in RangeOf(dual_lease_phases')
                    /\ \A r \in dualsOf(dual_leases', p) :
                         IF p \in RangeOf(dual_lease_phases)
                         THEN /\ r \in DOMAIN dual_leases
                              /\ dual_leases'[r][2] = dual_leases[r][2]
                              /\ leases'[r] = leases[r]
                         ELSE /\ r \in DOMAIN past_lease_values
                              /\ \A s \in Sets : last_lease_cost[p][s][3] = r
                              /\ leases'[r] = past_lease_values[r][2]
                              /\ dual_leases'[r][2] = past_lease_values[r][1]
                              /\ leases[r] = past_lease_values[r][1]
             /\ \A r \in DOMAIN leases :
                  (PhaseOf(r) = own /\ r # ref) =>
                    /\ leases'[r] = leases[r]
                    /\ r \notin DOMAIN dual_leases'
             /\ event'.kind = "dual" =>
                  /\ leases'[ref] = leases[ref]
                  /\ dual_leases'[ref] = <<event'.alpha, cand.lease>>
                  /\ event'.alpha = AlphaOver({own}, NewPhaseRefCost(cand, leases[ref]))]_vars

\* ---------------------------------------------------------------- back-adjustment runs
\* runs of C-SHEL on every trace of four samples, fully associative cache of two blocks
AdjustSamples == 4

AdjustInit ==
    \E raw \in [1 .. AdjustSamples -> RawSamples(0)] : InitWith(<<2, 0>>, raw, "cshel")

AdjustSpec == AdjustInit /\ [][ScenarioNext]_vars

\* C25: the new_alpha a successful C-SHEL back-adjustment applies to a phase p depends on p
\* alone: it is the least, over the examined sets s of p with a nonzero prior lease cost, of
\* min(1.0, (budget[p] - projected_cost[p][s]) / old_phase_cost_max[p][s]), whatever other
\* phases are examined and in whatever order; the adjusted phase is charged its projected cost
\* plus old_phase_cost_max scaled by that new_alpha.
C25_NewAlphaDependsOnPhaseOnly ==
    [][LET cand == event'.cand
           ref == Low32(cand.ref_id)
           own == PhaseOf(cand.ref_id)
       IN (pc = "loop" /\ cshel /\ cand \in ppuc_tree /\ event'.adjusted)
          => \A new_cost \in {NewPhaseRefCost(cand, leases[ref])} :
             \A current_phase_alpha \in {AlphaOver({own}, new_cost)} :
             \A p \in DOMAIN last_lease_cost :
             LET sets == {s \in Sets : new_cost[p][s] > 0 /\ last_lease_cost[p][s][1] # 0}
                 projected(s) == cost_per_phase[p][s] - last_lease_cost[p][s][1]
                                   + FRound(FMulInt(new_cost[p][s], current_phase_alpha))
                 set_alpha(s) == float_min(One, Frac(budget_per_phase[p] - projected(s),
                                                     last_lease_cost[p][s][2]))
                 least == CHOOSE s \in sets : \A t \in sets : FLe(set_alpha(s), set_alpha(t))
                 base(s) == IF new_cost[p][s] > 0 THEN projected(s) ELSE cost_per_phase[p][s]
             IN sets # {}
                => \A s \in Sets :
                     cost_per_phase'[p][s] =
                         base(s) + FTrunc(FMulInt(last_lease_cost[p][s][2], set_alpha(least)))]_vars

\* ---------------------------------------------------------------- C26
\* C26: during the main loop of shel_cshel no cost_per_phase[p][s] decreases, except, with
\* cshel = true, in an iteration that applies a back-adjustment.
C26_CostsNeverDecrease ==
    [][(pc = "loop" /\ alg \in {"shel", "cshel"})
          => \/ \A p \in DOMAIN cost_per_phase : \A s \in Sets :
                   cost_per_phase'[p][s] >= cost_per_phase[p][s]
             \/ cshel /\ event'.adjusted /\ event'.cand \in ppuc_tree]_vars

\* ---------------------------------------------------------------- C27
\* C27: for every candidate of the heap that raises the lease of its reference, every phase p
\* and every set, the cost the allocator computes is (cost_p(new) - cost_p(old)) * sample_rate,
\* with cost_p(L) = sum of min(ri, L) * count in the reference's own phase (0 elsewhere) for
\* SHEL and sum over ri <= L of the head costs plus the tail cost at L for C-SHEL, and this
\* difference is never negative.
C27_NewCostNeverNegative ==
    (pc = "loop" /\ alg \in {"shel", "cshel"}) =>
        \A cand \in ppuc_tree : \A p \in DOMAIN cost_per_phase : \A s \in Sets :
            LET ref == WithSet(Low32(cand.ref_id), s)
                old == leases[Low32(cand.ref_id)]
                hist == Get(ri_hists, ref, EmptyMap)
                head(ri) == Get(hist[ri].cost, p, <<0, 0>>)[1]
                tail(L) == IF L \in DOMAIN hist THEN Get(hist[L].cost, p, <<0, 0>>)[2] ELSE 0
                cost(L) ==
                    IF cshel
                    THEN SumSet({ri \in DOMAIN hist : ri <= L},
                                [ri \in {q \in DOMAIN hist : q <= L} |-> head(ri)]) + tail(L)
                    ELSE IF p = PhaseOf(cand.ref_id)
                    THEN SumSet(DOMAIN hist,
                                [ri \in DOMAIN hist |-> Min2(ri, L) * hist[ri].count])
                    ELSE 0
            IN cand.lease > old =>
                 /\ phase_ref_cost(cshel, sample_rate, p, ref, old, cand.lease, ri_hists)
                        = (cost(cand.lease) - cost(old)) * sample_rate
                 /\ cost(cand.lease) >= cost(old)

\* ---------------------------------------------------------------- C28
\* C28: in prl, once a reference holds a dual lease, every later candidate popped for that
\* reference is discarded: leases, dual_leases and bin_saturation are left as they are.
C28_PrlDualReferenceIsFinal ==
    [][LET cand == event'.cand
       IN (/\ pc = "loop" /\ alg = "prl" /\ cand \in ppuc_tree
           /\ \E r \in DOMAIN dual_leases : Low32(r) = Low32(cand.ref_id))
          => /\ pc' = "loop"
             /\ UNCHANGED <<leases, dual_leases, bin_saturation>>]_vars

\* a candidate discarded for a reference whose dual lease is stored under a key with set bits
C28_Witness ==
    /\ pc = "loop" /\ alg = "prl" /\ event.kind \in Rejections
    /\ event.cand.old_lease = leases[Low32(event.cand.ref_id)]
    /\ \E r \in DOMAIN dual_leases : r.set # 0 /\ Low32(r) = Low32(event.cand.ref_id)

\* ---------------------------------------------------------------- get_avg_lease
\* get_avg_lease applied to the one-bin histograms get_prl_hists builds from traces of up to
\* AvgSamples samples of one reference, reuse intervals of 0 included
AvgSamples == 3
\* the largest lease get_avg_lease is asked about
AvgLeases == 4

AvgInit ==
    \E n \in 1 .. AvgSamples :
      \E raw \in [1 .. n -> {[phase |-> 0, addr |-> 1, tag |-> 0, ri |-> ri] :
                                 ri \in {0} \cup SampledRIs}] :
        \E binned \in {get_prl_hists(MkTrace(raw), 1, 0)} :
        /\ trace = MkTrace(raw)
        /\ binned_ris = binned.bin_ri_distribution
        /\ binned_freqs = binned.bin_freqs
        /\ bin_width = binned.bin_width
        /\ pc = "avg"
        /\ alg = "prl"
        /\ reader = [is_head |-> FALSE, next |-> n + 1]
        /\ leases = EmptyMap
        /\ dual_leases = EmptyMap
        /\ llt_size = 0
        /\ mem_size = 0
        /\ image = NoImage
        /\ ri_hists = EmptyMap
        /\ samples_per_phase = EmptyMap
        /\ cache_size = 2
        /\ set_mask = 0
        /\ sample_rate = 1
        /\ discretize_width = 1
        /\ cost_per_phase = EmptyMap
        /\ ppuc_tree = {}
        /\ bin_saturation = EmptyMap
        /\ dual_lease_phases = << >>
        /\ past_lease_values = EmptyMap
        /\ last_lease_cost = EmptyMap
        /\ unpruned = [leases |-> EmptyMap, dual_leases |-> EmptyMap]
        /\ predicted = [num_hits |-> 0, misses |-> 0]
        /\ event = Ev("init", NoCand, Zero, FALSE)
        /\ committed = << >>

\* one call get_avg_lease(binned_ris, addr, bin, lease); the result is kept in predicted.num_hits
\* and the arguments in event.cand (ref_id, lease) and predicted.misses (bin)
GetAvgLease ==
    /\ pc = "avg"
    /\ \E bin \in DOMAIN binned_ris : \E addr \in DOMAIN binned_ris[bin] : \E lease \in 0 .. AvgLeases :
          /\ predicted' = [num_hits |-> get_avg_lease(binned_ris, addr, bin, lease),
                           misses |-> bin]
          /\ event' = Ev("avg", [NoCand EXCEPT !.ref_id = addr, !.lease = lease], Zero, FALSE)
    /\ pc' = "averaged"
    /\ UNCHANGED <<inputs, leases, dual_leases, cost_per_phase, ppuc_tree, dual_lease_phases,
                   past_lease_values, last_lease_cost, bin_saturation, llt_size, unpruned,
                   image, committed>>

AvgSpec == AvgInit /\ [][GetAvgLease]_vars

\* C29: get_avg_lease(b, a, L) is the sum of ri * freq over the reuse intervals of a in b with
\* 0 < ri <= L plus the sum of L * freq over those with ri > L; a reuse interval of 0 adds
\* nothing.
C29_AvgLeaseSums ==
    pc = "averaged" =>
        LET d == binned_ris[predicted.misses][event.cand.ref_id]
            L == event.cand.lease
            short == {ri \in DOMAIN d : 0 < ri /\ ri <= L}
            long == {ri \in DOMAIN d : ri > L}
        IN predicted.num_hits = SumSet(short, [ri \in short |-> ri * d[ri]])
                                  + SumSet(long, [ri \in long |-> L * d[ri]])

C31_PrlDualLeaseByAlphaStar ==
    [][(alg = "prl" /\ pc = "loop" /\ pc' = "loop" /\ event'.cand \in ppuc_tree
           /\ Low32(event'.cand.ref_id) \in DOMAIN leases
           /\ event'.cand.old_lease = leases[Low32(event'.cand.ref_id)]
           /\ Low32(event'.cand.ref_id) \notin DOMAIN dual_leases
           /\ event'.kind # "neg_impact") =>
          LET cand == event'.cand
              target == Frac(bin_target, 1)
              sat(c) == bin_saturation[c[1]][c[2]]
              imp(c) == Frac(Impact(cand, c), 1)
              full == {c \in Cells : FLe(target, sat(c))}
              filling == {c \in Cells : FLe(target, FAdd(sat(c), imp(c))) /\ Impact(cand, c) # 0}
              ratio(c) == FDivInt(FSub(target, sat(c)), Impact(cand, c))
          IN (\E c \in Cells : FLt(target, FAdd(sat(c), imp(c)))) =>
                \A alpha_star \in (IF full # {} THEN {Zero}
                                   ELSE {ratio(c) : c \in {m \in filling :
                                            \A d \in filling : FLe(ratio(m), ratio(d))}}) :
                   IF FLt(min_alpha, alpha_star)
                   THEN /\ event'.kind = "dual"
                        /\ full = {}
                        /\ dual_leases' = Put(dual_leases, cand.ref_id, <<alpha_star, cand.lease>>)
                        /\ leases' = leases
                        /\ \A c \in Cells :
                              bin_saturation'[c[1]][c[2]] = FAdd(sat(c), FMul(imp(c), alpha_star))
                   ELSE /\ event'.kind = "refuse_alpha"
                        /\ UNCHANGED <<leases, dual_leases, bin_saturation>>]_vars

\* prl committed a dual lease with a share below 1 for a candidate that touches two cells
C31_Witness ==
    /\ alg = "prl"
    /\ pc = "loop"
    /\ event.kind = "dual"
    /\ FLt(event.alpha, One)
    /\ event.cand.ref_id \in DOMAIN dual_leases
    /\ dual_leases[event.cand.ref_id] = <<event.alpha, event.cand.lease>>
    /\ Cardinality(Touched(event.cand)) >= 2

\* ---------------------------------------------------------------- C32
\* C32: the use time of every sample the histogram builder has processed is
\* reuse_time - max(ri, 0), ri read as a signed 32-bit value: reuse_time - ri for
\* ri >= 0 and reuse_time itself for a negative (cold) ri.
C32_UseTimeIgnoresColdRI ==
    pc \in {"build", "built"} =>
        \A i \in DOMAIN trace :
            (pc = "built" \/ i < reader.next \/ (alg = "cshel" /\ ~reader.is_head)) =>
                UseTime(trace[i]) = trace[i].time - Max2(trace[i].backward_ri, 0)

\* ---------------------------------------------------------------- C33
\* C33: when no phase transition lies after the use time t of a sample the histogram
\* builder has processed, the (boundary, next_phase) pair it uses is (t + 1, 0).
C33_GuardTupleFollowsUseTime ==
    pc \in {"build", "built"} =>
        \A pt \in {build_phase_transitions(trace)} :
        \A i \in DOMAIN trace :
            (/\ pc = "built" \/ i < reader.next \/ (alg = "cshel" /\ ~reader.is_head)
             /\ binary_search(pt, UseTime(trace[i])) = << >>) =>
                NextPhaseTuple(pt, trace[i]) = <<UseTime(trace[i]) + 1, 0>>

\* ---------------------------------------------------------------- C34
\* C34: in the C-SHEL head pass a sample with use time u, interval ri and next
\* transition (boundary, next_phase) adds min(boundary - u, ri) to the head cost of its
\* own phase at key ri and, exactly when u + ri > boundary, u + ri - boundary to the
\* head cost of next_phase at key ri; the two credits sum to ri, no other phase is
\* credited and no tail cost changes.
C34_HeadCreditsSplitAtBoundary ==
    [][(pc = "build" /\ alg = "cshel" /\ reader.is_head) =>
          \A s \in {trace[reader.next]} :
          \A tuple \in {NextPhaseTuple(build_phase_transitions(trace), s)} :
             LET ref == SetPhaseRef(s, set_mask)
                 ri == CanonicalRI(s)
                 u == UseTime(s)
                 own == PhaseOf(s.phase_id_ref)
                 this == Min2(tuple[1] - u, ri)
                 next == IF u + ri > tuple[1] THEN u + ri - tuple[1] ELSE 0
                 credit(p) == (IF p = own THEN this ELSE 0) + (IF p = tuple[2] THEN next ELSE 0)
             IN /\ this + next = ri
                /\ ref \in DOMAIN ri_hists'
                /\ ri \in DOMAIN ri_hists'[ref]
                /\ own \in DOMAIN ri_hists'[ref][ri].cost
                /\ (next > 0) <=> (u + ri > tuple[1])
                /\ next > 0 => tuple[2] \in DOMAIN ri_hists'[ref][ri].cost
                /\ \A p \in DOMAIN ri_hists'[ref][ri].cost :
                      /\ CostEntry(ri_hists', ref, ri, p)[1]
                            = CostEntry(ri_hists, ref, ri, p)[1] + credit(p)
                      /\ CostEntry(ri_hists', ref, ri, p)[2] = CostEntry(ri_hists, ref, ri, p)[2]
                /\ \A r \in DOMAIN ri_hists' : \A k \in DOMAIN ri_hists'[r] :
                      <<r, k>> # <<ref, ri>> =>
                          r \in DOMAIN ri_hists /\ k \in DOMAIN ri_hists[r]
                          /\ ri_hists'[r][k] = ri_hists[r][k]]_vars

\* the head pass split the interval of one sample between its own phase and the next one
C34_Witness ==
    /\ pc = "build"
    /\ alg = "cshel"
    /\ reader.is_head
    /\ \E ref \in DOMAIN ri_hists : \E ri \in DOMAIN ri_hists[ref] :
          /\ ri # ColdRI
          /\ ri_hists[ref][ri].count = 1
          /\ \E p, q \in DOMAIN ri_hists[ref][ri].cost :
                /\ p # q
                /\ ri_hists[ref][ri].cost[p][1] > 0
                /\ ri_hists[ref][ri].cost[q][1] > 0
                /\ ri_hists[ref][ri].cost[p][1] + ri_hists[ref][ri].cost[q][1] = ri

\* ---------------------------------------------------------------- get_prl_hists
\* get_prl_hists applied to traces of up to BinSamples samples whose times rise through
\* 1 .. BinTimes, gaps between consecutive samples included
BinSamples == 2
BinTimes == 6

BinInit ==
    \E n \in 1 .. BinSamples :
      \E raw \in [1 .. n -> {[phase |-> r[1], addr |-> r[2], tag |-> 0, ri |-> 1] : r \in Refs}] :
        \E times \in {t \in [1 .. n -> 1 .. BinTimes] : \A i, j \in 1 .. n : i < j => t[i] < t[j]} :
        /\ trace = [i \in 1 .. n |-> [MkTrace(raw)[i] EXCEPT !.time = times[i]]]
        /\ binned_ris = EmptyMap
        /\ binned_freqs = EmptyMap
        /\ bin_width = 0
        /\ pc = "bin"
        /\ alg = "prl"
        /\ reader = [is_head |-> FALSE, next |-> 1]
        /\ leases = EmptyMap
        /\ dual_leases = EmptyMap
        /\ llt_size = 0
        /\ mem_size = 0
        /\ image = NoImage
        /\ ri_hists = EmptyMap
        /\ samples_per_phase = EmptyMap
        /\ cache_size = 2
        /\ set_mask = 0
        /\ sample_rate = 1
        /\ discretize_width = 1
        /\ cost_per_phase = EmptyMap
        /\ ppuc_tree = {}
        /\ bin_saturation = EmptyMap
        /\ dual_lease_phases = << >>
        /\ past_lease_values = EmptyMap
        /\ last_lease_cost = EmptyMap
        /\ unpruned = [leases |-> EmptyMap, dual_leases |-> EmptyMap]
        /\ predicted = [num_hits |-> 0, misses |-> 0]
        /\ event = Ev("init", NoCand, Zero, FALSE)
        /\ committed = << >>

\* one call get_prl_hists(input_file, num_bins, set_mask)
GetPrlHists ==
    /\ pc = "bin"
    /\ \E num_bins \in BinCounts :
         \E binned \in {get_prl_hists(trace, num_bins, set_mask)} :
            /\ binned_ris' = binned.bin_ri_distribution
            /\ binned_freqs' = binned.bin_freqs
            /\ bin_width' = binned.bin_width
    /\ reader' = [reader EXCEPT !.next = Len(trace) + 1]
    /\ pc' = "binned"
    /\ event' = Ev("bin", NoCand, Zero, FALSE)
    /\ UNCHANGED <<alg, trace, mem_size, cache_size, set_mask, sample_rate, discretize_width,
                   ri_hists, samples_per_phase, leases, dual_leases, cost_per_phase, ppuc_tree,
                   dual_lease_phases, past_lease_values, last_lease_cost, bin_saturation,
                   llt_size, unpruned, predicted, image, committed>>

BinSpec == BinInit /\ [][GetPrlHists]_vars

\* C35: get_prl_hists cuts the trace into bins of width bin_width: every sample is counted
\* in the bin whose time slice (bin, bin + bin_width] contains its time, also when
\* consecutive samples are more than one bin width apart, and every address of the trace
\* has an entry in bin_freqs of every bin, 0 where it does not occur.
C35_SamplesCountedInTheirTimeSlice ==
    pc = "binned" =>
        LET addr(i) == SetPhaseRef(trace[i], set_mask)
            inSlice(i, bin) == bin < trace[i].time /\ trace[i].time <= bin + bin_width
            occurrences(a, bin) ==
                Cardinality({i \in DOMAIN trace : addr(i) = a /\ inSlice(i, bin)})
        IN /\ \A i \in DOMAIN trace : \E bin \in DOMAIN binned_freqs : inSlice(i, bin)
           /\ \A bin \in DOMAIN binned_freqs : \A i \in DOMAIN trace :
                 /\ addr(i) \in DOMAIN binned_freqs[bin]
                 /\ binned_freqs[bin][addr(i)] = occurrences(addr(i), bin)

\* ---------------------------------------------------------------- runs over three phases
\* C-SHEL on seven samples of four references in three phases, for a fully associative
\* cache of four blocks; the long reuse intervals range up to RevertLongRI
RevertLongRI == 6

RevertInit ==
    LET refs == << <<2, 1, 2>>, <<2, 2, 3>>, <<2, 1, 4>>, <<2, 2, 7>>,
                   <<1, 2, 9>>, <<1, 2, 11>>, <<0, 2, 14>> >>
    IN \E second \in {2, 3}, last \in {2, 4} :
         \E fourth \in 5 .. RevertLongRI, sixth \in 5 .. RevertLongRI :
         \E ris \in {<<2, second, 2, fourth, 2, sixth, last>>} :
         \E samples \in {[i \in DOMAIN refs |->
                            [phase_id_ref |-> MkId(0, refs[i][1], refs[i][2]),
                             backward_ri |-> ris[i], tag |-> 0, time |-> refs[i][3]]]} :
         \E built \in {build_ri_hists(samples, TRUE, 0)} :
            /\ cache_size = 4
            /\ set_mask = 0
            /\ alg = "cshel"
            /\ sample_rate = 1
            /\ discretize_width = 1
            /\ trace = samples
            /\ reader = [is_head |-> FALSE, next |-> Len(samples) + 1]
            /\ ri_hists = built.hists
            /\ samples_per_phase = built.samples_per_phase
            /\ InitShelCshel("cshel", built)
            /\ dual_leases = EmptyMap
            /\ dual_lease_phases = << >>
            /\ past_lease_values = EmptyMap
            /\ last_lease_cost = EmptyMap
            /\ llt_size = 0
            /\ unpruned = [leases |-> EmptyMap, dual_leases |-> EmptyMap]
            /\ predicted = [num_hits |-> 0, misses |-> 0]
            /\ mem_size = 0
            /\ image = NoImage
            /\ pc = "loop"
            /\ event = Ev("init", NoCand, Zero, FALSE)
            /\ committed = << >>

RevertSpec == RevertInit /\ [][ScenarioNext]_vars

\* ---------------------------------------------------------------- C36
\* C36: in prl and in shel_cshel with cshel = false no short lease ever decreases, and
\* leases changes only when a candidate is committed as a single lease: then only the
\* candidate's reference changes, to a sampled reuse interval above its previous lease.
\* With cshel = true a short lease is lowered only by a back-adjustment, and then to
\* the lease the reference held before its last commit.
C36_ShortLeasesOnlyGrow ==
    [][pc = "loop" =>
          /\ \A ref \in DOMAIN leases : ref \in DOMAIN leases'
          /\ alg \in {"prl", "shel"} =>
                /\ \A ref \in DOMAIN leases : leases'[ref] >= leases[ref]
                /\ leases' # leases =>
                      \A cand \in {event'.cand} : \A key \in {Low32(event'.cand.ref_id)} :
                         /\ event'.kind \in {"single", "single_alpha1"}
                         /\ key \in DOMAIN leases
                         /\ leases' = Put(leases, key, cand.lease)
                         /\ cand.lease > leases[key]
                         /\ cand.ref_id \in DOMAIN ri_hists
                         /\ cand.lease \in DOMAIN ri_hists[cand.ref_id]
          /\ alg = "cshel" =>
                \A ref \in DOMAIN leases :
                   leases'[ref] < leases[ref] =>
                      /\ event'.adjusted
                      /\ ref \in DOMAIN past_lease_values
                      /\ leases[ref] = past_lease_values[ref][1]
                      /\ leases'[ref] = past_lease_values[ref][2]
                      /\ leases'[ref] < leases[ref]]_vars

\* ---------------------------------------------------------------- runs with two cache sets
\* C-SHEL on ExitSamples samples for a cache of four blocks in two sets
ExitSamples == 3

ExitInit ==
    \E raw \in [1 .. ExitSamples -> RawSamples(1)] : InitWith(<<4, 2>>, raw, "cshel")

ExitSpec == ExitInit /\ [][ScenarioNext]_vars

\* C37: when shel_cshel returns because dual_lease_phases is as long as cost_per_phase,
\* going on until the heap is empty would give the same leases, dual_leases and
\* cost_per_phase: no candidate left, the popped one included, would pass the stale,
\* full-set and dual-phase tests and be committed as an acceptable single lease.
C37_EarlyExitLosesNothing ==
    [][(pc = "loop" /\ alg \in {"shel", "cshel"} /\ event'.kind = "return_all_dual") =>
          \A c \in ppuc_tree :
             \A key \in {Low32(c.ref_id)} : \A phase \in {PhaseOf(c.ref_id)} :
                (/\ key \in DOMAIN leases
                 /\ c.old_lease = leases[key]
                 /\ ~SetFull(cost_per_phase, phase)
                 /\ phase \notin RangeOf(dual_lease_phases)) =>
                    \A new_cost \in {NewPhaseRefCost(c, leases[key])} :
                       \E p \in DOMAIN cost_per_phase : \E set \in Sets :
                          \/ new_cost[p][set] < 0
                          \/ new_cost[p][set] + cost_per_phase[p][set] > budget_per_phase[p]]_vars

\* ---------------------------------------------------------------- C38
\* C38: build_ri_hists counts every sample exactly once in either mode: after each call
\* of process_sample the counts of all references and reuse intervals add up to the
\* number of samples counted so far, and so do the entries of samples_per_phase; a call
\* of the C-SHEL tail pass changes no count and no samples_per_phase entry.
C38_EachSampleCountedOnce ==
    [][pc = "build" =>
          LET Total(hists) ==
                  SumSet(DOMAIN hists,
                         [ref \in DOMAIN hists |->
                             SumSet(DOMAIN hists[ref],
                                    [ri \in DOMAIN hists[ref] |-> hists[ref][ri].count])])
              PerPhase(spp) == SumSet(DOMAIN spp, [p \in DOMAIN spp |-> spp[p]])
              tail == alg = "cshel" /\ ~reader.is_head
              counted == IF tail THEN Len(trace) ELSE reader.next
          IN /\ Total(ri_hists') = counted
             /\ PerPhase(samples_per_phase') = counted
             /\ tail =>
                   /\ samples_per_phase' = samples_per_phase
                   /\ DOMAIN ri_hists' = DOMAIN ri_hists
                   /\ \A ref \in DOMAIN ri_hists :
                         /\ DOMAIN ri_hists'[ref] = DOMAIN ri_hists[ref]
                         /\ \A ri \in DOMAIN ri_hists[ref] :
                               ri_hists'[ref][ri].count = ri_hists[ref][ri].count]_vars

\* both passes of C-SHEL are over two samples of one reference, the shorter interval
\* carrying a tail cost from the longer one
C38_Witness ==
    /\ pc = "built"
    /\ alg = "cshel"
    /\ Len(trace) = 2
    /\ \E ref \in DOMAIN ri_hists : \E ri \in DOMAIN ri_hists[ref] :
          /\ Cardinality(DOMAIN ri_hists[ref]) = 2
          /\ ri_hists[ref][ri].count = 1
          /\ \E p \in DOMAIN ri_hists[ref][ri].cost : ri_hists[ref][ri].cost[p][2] > 0

\* ---------------------------------------------------------------- C39
\* C39: in the dual-lease cost update of shel_cshel, computed in exact arithmetic, the
\* budget clamp changes nothing: with alpha the least (budget - cost) / new_cost over
\* the phases and sets with nonzero new_cost, cost[p][s] + round(new_cost[p][s] * alpha)
\* is at most budget[p] for every phase p and set s before the clamp is applied.
C39_ClampChangesNothing ==
    [][LET cand == event'.cand
           ref == Low32(cand.ref_id)
           phase == PhaseOf(cand.ref_id)
           skipped == \/ cand.old_lease # leases[ref]
                      \/ SetFull(cost_per_phase, phase)
                      \/ Len(dual_lease_phases) = Cardinality(DOMAIN cost_per_phase)
                      \/ phase \in RangeOf(dual_lease_phases)
           all == (DOMAIN cost_per_phase) \X Sets
       IN (pc = "loop" /\ pc' = "loop" /\ alg \in {"shel", "cshel"} /\ cand \in ppuc_tree
             /\ ~skipped)
          => \A new_cost \in {NewPhaseRefCost(cand, leases[ref])} :
             LET defined == \A c \in all : new_cost[c[1]][c[2]] >= 0
                 fits == \A c \in all : cost_per_phase[c[1]][c[2]] + new_cost[c[1]][c[2]]
                                           <= budget_per_phase[c[1]]
                 cells == {c \in all : new_cost[c[1]][c[2]] > 0}
                 ratio(c) == Frac(budget_per_phase[c[1]] - cost_per_phase[c[1]][c[2]],
                                  new_cost[c[1]][c[2]])
                 refused == \E c \in cells : c[1] = phase /\ FLt(ratio(c), min_alpha)
                 least == CHOOSE c \in cells : \A d \in cells : FLe(ratio(c), ratio(d))
             IN (defined /\ ~fits /\ ~refused /\ cells # {}) =>
                   \A alpha \in {float_min(One, ratio(least))} :
                      FLt(min_alpha, alpha) =>
                         \A c \in all :
                            cost_per_phase[c[1]][c[2]] + FRound(FMulInt(new_cost[c[1]][c[2]], alpha))
                               <= budget_per_phase[c[1]]]_vars

====
